---- MODULE Spec2Model ----
(***************************************************************************)
(* A model of simple_dav_client.py: the path component algebra, the        *)
(* listing classifier, the directory creation planner and the put and get  *)
(* action planners.                                                        *)
(*                                                                         *)
(* A string is a sequence of one-character strings, so that splitting,     *)
(* prefix tests and percent-coding are computed and not assumed.  A path   *)
(* component sequence is a sequence of such strings.                       *)
(***************************************************************************)
EXTENDS Integers, Sequences, FiniteSets, TLC

\* ------------------------------------------------------------------ bounds
\* Longest path string given to the two path parsers.
MaxPathLen == 6
\* Longest tail of a resource locator (after the base, or as a relative locator).
MaxHrefLen == 4
\* Most characters, separators included, of a component sequence given to
\* the locator renderer.
MaxRenderLen == 5
\* Most entries of a remote or local tree.
MaxEntries == 3
\* Most segments of a path handed to the directory creation planner.
MaxDepth == 3
\* Most entries of a listing response given to the classifier.
MaxListing == 3
\* Most entries of a listing response the arbitrary server gives the get planner.
MaxGetListing == 2
\* Most invocations of the get planner against the arbitrary server.
MaxGetCalls == 4
\* Most entries of a local tree given to the put planner.
MaxLocalEntries == 3

\* --------------------------------------------------------- string helpers
RECURSIVE StrOfLen(_, _)
StrOfLen(chars, n) ==
    IF n = 0 THEN {<<>>}
    ELSE {Append(s, c) : s \in StrOfLen(chars, n - 1), c \in chars}

StrUpTo(chars, n) == UNION {StrOfLen(chars, k) : k \in 0..n}

StartsWith(s, prefix) ==
    /\ Len(prefix) <= Len(s)
    /\ SubSeq(s, 1, Len(prefix)) = prefix

DropFirst(s, n) == SubSeq(s, n + 1, Len(s))

ButLast(s) == SubSeq(s, 1, Len(s) - 1)

Last(s) == s[Len(s)]

\* str.split('/'): the pieces between separators, empty pieces included.
RECURSIVE StrSplitFrom(_, _, _)
StrSplitFrom(s, i, cur) ==
    IF i > Len(s) THEN <<cur>>
    ELSE IF s[i] = "/" THEN <<cur>> \o StrSplitFrom(s, i + 1, <<>>)
    ELSE StrSplitFrom(s, i + 1, Append(cur, s[i]))

StrSplit(s) == StrSplitFrom(s, 1, <<>>)

\* '/'.join(parts)
RECURSIVE StrJoin(_)
StrJoin(parts) ==
    IF parts = <<>> THEN <<>>
    ELSE IF Len(parts) = 1 THEN parts[1]
    ELSE parts[1] \o <<"/">> \o StrJoin(Tail(parts))

AllSlashes(s) == \A i \in 1..Len(s) : s[i] = "/"

RECURSIVE RStripSlashes(_)
RStripSlashes(s) ==
    IF s # <<>> /\ Last(s) = "/" THEN RStripSlashes(ButLast(s)) ELSE s

\* s.rfind('/') + 1
RECURSIVE AfterLastSlash(_, _)
AfterLastSlash(s, i) ==
    IF i = 0 THEN 0
    ELSE IF s[i] = "/" THEN i
    ELSE AfterLastSlash(s, i - 1)

\* posixpath.split (os.path.split on a POSIX host): (head, tail).
PosixSplit(p) ==
    LET i    == AfterLastSlash(p, Len(p))
        head == SubSeq(p, 1, i)
        tail == SubSeq(p, i + 1, Len(p))
    IN  [head |-> IF head # <<>> /\ ~AllSlashes(head) THEN RStripSlashes(head) ELSE head,
         tail |-> tail]

\* ------------------------------------------------------------- path verbs
Root == [verb |-> "Root", child |-> <<>>]
Parent == [verb |-> "Parent", child |-> <<>>]
Current == [verb |-> "Current", child |-> <<>>]
Child(name) == [verb |-> "Child", child |-> name]

VerbOfTail(tail) ==
    IF tail = <<".", ".">> THEN Parent
    ELSE IF tail = <<".">> \/ tail = <<>> THEN Current
    ELSE Child(tail)

\* fspathverbs.compile_to_fspathverbs: the path is peeled from the right
\* with split until split makes no progress (an empty path, or a root).
RECURSIVE compile_to_fspathverbs(_)
compile_to_fspathverbs(path) ==
    LET sp == PosixSplit(path) IN
    IF sp.head = path
    THEN IF path = <<>> THEN <<>> ELSE <<Root>>
    ELSE compile_to_fspathverbs(sp.head) \o <<VerbOfTail(sp.tail)>>

\* ------------------------------------------------- path component algebra
Returned(components) == [ok |-> TRUE, components |-> components]
Raised == [ok |-> FALSE, components |-> <<>>]

\* Faulty variant: the popped list is discarded (components.pop() not rebound).
RECURSIVE LocalVerbLoop_PopDiscarded(_, _, _)
LocalVerbLoop_PopDiscarded(verbs, i, components) ==
    IF i > Len(verbs) THEN Returned(components)
    ELSE IF verbs[i].verb = "Parent"
         THEN IF components # <<>>
              THEN LocalVerbLoop_PopDiscarded(verbs, i + 1, components)
              ELSE Raised
    ELSE IF verbs[i].verb = "Current"
         THEN LocalVerbLoop_PopDiscarded(verbs, i + 1, components)
    ELSE IF verbs[i].verb = "Child"
         THEN LocalVerbLoop_PopDiscarded(verbs, i + 1, Append(components, verbs[i].child))
    ELSE Raised

RECURSIVE LocalVerbLoop(_, _, _)
LocalVerbLoop(verbs, i, components) ==
    IF i > Len(verbs) THEN Returned(components)
    ELSE IF verbs[i].verb = "Parent"
         THEN IF components # <<>>
              THEN LocalVerbLoop(verbs, i + 1, ButLast(components))
              ELSE Raised
    ELSE IF verbs[i].verb = "Current"
         THEN LocalVerbLoop(verbs, i + 1, components)
    ELSE IF verbs[i].verb = "Child"
         THEN LocalVerbLoop(verbs, i + 1, Append(components, verbs[i].child))
    ELSE Raised

relative_local_path_to_relative_local_path_components(relative_local_path) ==
    LocalVerbLoop(compile_to_fspathverbs(relative_local_path), 1, <<>>)

\* Faulty variant: a parent reference on an empty sequence is ignored, not refused.
RECURSIVE RemoteVerbLoop_PopOnEmptyIgnored(_, _, _)
RemoteVerbLoop_PopOnEmptyIgnored(verbs, i, components) ==
    IF i > Len(verbs) THEN Returned(components)
    ELSE IF verbs[i].verb = "Root"
         THEN RemoteVerbLoop_PopOnEmptyIgnored(verbs, i + 1, <<>>)
    ELSE IF verbs[i].verb = "Parent"
         THEN RemoteVerbLoop_PopOnEmptyIgnored(verbs, i + 1,
                  IF components # <<>> THEN ButLast(components) ELSE components)
    ELSE IF verbs[i].verb = "Current"
         THEN RemoteVerbLoop_PopOnEmptyIgnored(verbs, i + 1, components)
    ELSE RemoteVerbLoop_PopOnEmptyIgnored(verbs, i + 1, Append(components, verbs[i].child))

RECURSIVE RemoteVerbLoop(_, _, _)
RemoteVerbLoop(verbs, i, components) ==
    IF i > Len(verbs) THEN Returned(components)
    ELSE IF verbs[i].verb = "Root"
         THEN RemoteVerbLoop(verbs, i + 1, <<>>)
    ELSE IF verbs[i].verb = "Parent"
         THEN IF components # <<>>
              THEN RemoteVerbLoop(verbs, i + 1, ButLast(components))
              ELSE Raised
    ELSE IF verbs[i].verb = "Current"
         THEN RemoteVerbLoop(verbs, i + 1, components)
    ELSE RemoteVerbLoop(verbs, i + 1, Append(components, verbs[i].child))

remote_path_to_remote_path_components(remote_path) ==
    RemoteVerbLoop(compile_to_fspathverbs(remote_path), 1, <<>>)

\* ------------------------------------------------------ resource locators
\* The client's defaults (SimpleDAVClient.__init__).
Host == <<"l", "o", "c", "a", "l", "h", "o", "s", "t">>
Port == 8080

Digit(d) ==
    CASE d = 0 -> "0" [] d = 1 -> "1" [] d = 2 -> "2" [] d = 3 -> "3" [] d = 4 -> "4"
      [] d = 5 -> "5" [] d = 6 -> "6" [] d = 7 -> "7" [] d = 8 -> "8" [] d = 9 -> "9"

\* '%d' % n, for n >= 0
RECURSIVE FormatDecimal(_)
FormatDecimal(n) ==
    IF n < 10 THEN <<Digit(n)>> ELSE Append(FormatDecimal(n \div 10), Digit(n % 10))

\* 'http://%s:%d' % (host, port)
BaseHref(host, port) ==
    <<"h", "t", "t", "p", ":", "/", "/">> \o host \o <<":">> \o FormatDecimal(port)

\* urllib quote with its default safe set: letters, digits, "_.-~" and "/"
\* stay, every other character becomes %XX.
QuoteChar(c) ==
    IF c = "%" THEN <<"%", "2", "5">>
    ELSE IF c = "\"" THEN <<"%", "2", "2">>
    ELSE <<c>>

RECURSIVE quote(_)
quote(s) == IF s = <<>> THEN <<>> ELSE QuoteChar(Head(s)) \o quote(Tail(s))

IsHexDigit(c) == c \in {"2", "5", "F"}

\* The character of a byte given by two hex digits; a byte that is not
\* valid UTF-8 is replaced by U+FFFD.
HexDecode(a, b) ==
    CASE a = "2" /\ b = "2" -> "\""
      [] a = "2" /\ b = "5" -> "%"
      [] a = "2" /\ b = "F" -> "/"
      [] a = "5" /\ b = "2" -> "R"
      [] a = "5" /\ b = "5" -> "U"
      [] a = "5" /\ b = "F" -> "_"
      [] a = "F" -> "U+FFFD"

\* urllib unquote: %XX with two hex digits is decoded, any other % is kept.
RECURSIVE unquote(_)
unquote(s) ==
    IF s = <<>> THEN <<>>
    ELSE IF /\ s[1] = "%"
            /\ Len(s) >= 3
            /\ IsHexDigit(s[2])
            /\ IsHexDigit(s[3])
         THEN <<HexDecode(s[2], s[3])>> \o unquote(DropFirst(s, 3))
    ELSE <<s[1]>> \o unquote(Tail(s))

RECURSIVE MapQuote(_)
MapQuote(components) ==
    IF components = <<>> THEN <<>>
    ELSE <<quote(Head(components))>> \o MapQuote(Tail(components))

\* Faulty variant: the segments are joined without percent-encoding.
remote_path_components_to_href_Unquoted(host, port, remote_path_components) ==
    BaseHref(host, port) \o <<"/">> \o StrJoin(remote_path_components)

remote_path_components_to_href(host, port, remote_path_components) ==
    BaseHref(host, port) \o <<"/">> \o StrJoin(MapQuote(remote_path_components))

\* posixpath.normpath of an absolute path, as its list of segments: empty
\* and "." segments go, ".." pops (and is dropped at the root).
RECURSIVE NormSegments(_, _, _)
NormSegments(segs, i, acc) ==
    IF i > Len(segs) THEN acc
    ELSE IF segs[i] = <<>> \/ segs[i] = <<".">> THEN NormSegments(segs, i + 1, acc)
    ELSE IF segs[i] = <<".", ".">>
         THEN NormSegments(segs, i + 1, IF acc = <<>> THEN acc ELSE ButLast(acc))
    ELSE NormSegments(segs, i + 1, Append(acc, segs[i]))

\* [x for x in posixpath.abspath(path).split('/') if x], path not absolute
AbsSegments(workdir, path) == NormSegments(workdir \o StrSplit(path), 1, <<>>)

RECURSIVE CommonPrefixLen(_, _)
CommonPrefixLen(a, b) ==
    IF a = <<>> \/ b = <<>> \/ Head(a) # Head(b) THEN 0
    ELSE 1 + CommonPrefixLen(Tail(a), Tail(b))

\* posixpath.relpath(path, start), neither absolute, in directory workdir
PosixRelpath(workdir, path, start) ==
    LET start_list == AbsSegments(workdir, start)
        path_list  == AbsSegments(workdir, path)
        i          == CommonPrefixLen(start_list, path_list)
        rel_list   == [k \in 1..(Len(start_list) - i) |-> <<".", ".">>]
                        \o DropFirst(path_list, i)
    IN  IF rel_list = <<>> THEN <<".">> ELSE StrJoin(rel_list)

RECURSIVE HrefVerbLoop(_, _, _)
HrefVerbLoop(verbs, i, components) ==
    IF i > Len(verbs) THEN Returned(components)
    ELSE IF verbs[i].verb = "Root" THEN Raised
    ELSE IF verbs[i].verb = "Parent"
         THEN IF components # <<>>
              THEN HrefVerbLoop(verbs, i + 1, ButLast(components))
              ELSE Raised
    ELSE IF verbs[i].verb = "Current"
         THEN HrefVerbLoop(verbs, i + 1, components)
    ELSE HrefVerbLoop(verbs, i + 1, Append(components, unquote(verbs[i].child)))

\* workdir is the process's working directory, which posixpath.relpath reads.
HrefToComponentsIn(workdir, host, port, href) ==
    LET base == BaseHref(host, port) IN
    IF StartsWith(href, base)
    THEN HrefVerbLoop(compile_to_fspathverbs(PosixRelpath(workdir, href, base)), 1, <<>>)
    ELSE IF StartsWith(href, <<"/">>)
    THEN HrefVerbLoop(compile_to_fspathverbs(Tail(href)), 1, <<>>)
    ELSE Raised

\* ------------------------------------------------------------------ state
VARIABLES
    cwd,    \* the process's working directory, as its segments
    pFn,    \* path algebra: the conversion under test
    pIn,    \* path algebra: its input (a string, or a component sequence)
    pMid,   \* path algebra: the first conversion's result
    pOut,   \* path algebra: the second conversion's result
    pPc,    \* path algebra: "ready", "parsed", "rendered", "done"
    srv,    \* the server: "faithful" (it keeps a tree) or "arbitrary"
    remote, \* the remote tree: a set of [path, kind], the root left out
    remote0,    \* the remote tree when the operation began
    mkCalls,    \* create_directories_...: its invocations, outermost first
    mkLog,      \* the creation requests issued, with the status of each
    lsTarget,   \* classifier: the path it is asked about
    lsResponse, \* classifier: the server's answer to its listing request
    lsResult,   \* classifier: what it returned
    lsPc,       \* classifier: "ready", "done"
    getCalls,   \* get planner: its invocations, in the order they began
    getOut,     \* get planner: the actions it has yielded
    getLog,     \* get planner: the paths of the listing requests issued
    getPc,      \* get planner: "running", "done", "raised"
    getWire,    \* get: the requests sent and not yet answered
    getLocal,   \* get: what lies under the local destination directory
    getLocal0,  \* get: what lay there when the command began
    getDone,    \* get: how many of the yielded actions were carried out
    getXfer,    \* get: the download requests issued, with the status of each
    putTree,    \* put planner: the local file system
    putTop,     \* put planner: the absolute local path it was given
    putPrefix,  \* put planner: the remote prefix it was given
    putOut,     \* put planner: the actions it has yielded
    putWalk,    \* put planner: the directories os.walk has yet to visit
    putFrame,   \* put planner: the (dirpath, dirnames, filenames) in hand
    putPc,      \* put planner: "start", "walking", "done", "raised"
    bCmd,       \* main: the command and its options
    bTargets,   \* main: the targets of the command line, in order
    bNext,      \* main: the place of the target to process next
    bLines,     \* main: the lines written, with stream and target
    bLog,       \* main: the requests issued, with target and status
    bLocal,     \* main: what lies under the destination directory of get
    bPc         \* main: "running", "done", "crashed"

pathVars == <<cwd, pFn, pIn, pMid, pOut, pPc>>
serverVars == <<srv, remote, remote0>>
mkdirVars == <<mkCalls, mkLog>>
lsVars == <<lsTarget, lsResponse, lsResult, lsPc>>
getExecVars == <<getLocal, getLocal0, getDone, getXfer>>
getVars == <<getCalls, getOut, getLog, getPc, getWire, getExecVars>>
putVars == <<putTree, putTop, putPrefix, putOut, putWalk, putFrame, putPc>>
batchVars == <<bCmd, bTargets, bNext, bLines, bLog, bLocal, bPc>>
vars == <<pathVars, serverVars, mkdirVars, lsVars, getVars, putVars, batchVars>>
notPathVars == <<serverVars, mkdirVars, lsVars, getVars, putVars, batchVars>>
notMkdirVars == <<pathVars, lsVars, getVars, putVars, batchVars>>
notLsVars == <<pathVars, serverVars, mkdirVars, getVars, putVars, batchVars>>
notGetVars == <<pathVars, mkdirVars, lsVars, putVars, batchVars>>
notPutVars == <<pathVars, serverVars, mkdirVars, lsVars, getVars, batchVars>>
notBatchVars == <<pathVars, serverVars, mkdirVars, lsVars, getVars, putVars>>

PathIdle ==
    /\ cwd = <<>> /\ pFn = "none" /\ pIn = <<>> /\ pMid = <<>> /\ pOut = <<>>
    /\ pPc = "idle"

MkdirIdle == mkCalls = <<>> /\ mkLog = <<>>

ServerIdle == srv = "none" /\ remote = {} /\ remote0 = {}

LsIdle == lsTarget = <<>> /\ lsResponse = <<>> /\ lsResult = <<>> /\ lsPc = "idle"

GetIdle ==
    /\ getCalls = <<>> /\ getOut = <<>> /\ getLog = <<>> /\ getPc = "idle"
    /\ getWire = <<>>
    /\ getLocal = {} /\ getLocal0 = {} /\ getDone = 0 /\ getXfer = <<>>

PutIdle ==
    /\ putTree = {} /\ putTop = <<>> /\ putPrefix = <<>> /\ putOut = <<>>
    /\ putWalk = <<>> /\ putFrame = <<>> /\ putPc = "idle"

BatchIdle ==
    /\ bCmd = <<>> /\ bTargets = <<>> /\ bNext = 0 /\ bLines = <<>> /\ bLog = <<>>
    /\ bLocal = {} /\ bPc = "idle"

href_to_remote_path_components(host, port, href) ==
    HrefToComponentsIn(cwd, host, port, href)

\* ---------------------------------------------- path algebra: the inputs
PathChars == {"/", ".", "x", "y"}
HrefChars == {"/", ".", "x", "%", "2", "5"}
SegChars == {"/", ".", "x", "%", "2"}
CwdChoices == {<<>>, << <<"w">> >>}

NonEmpty(parts) == SelectSeq(parts, LAMBDA part : part # <<>>)

\* Sequences of non-empty segments, none "." or ".." and none with a separator.
ComponentSequences ==
    {c \in {NonEmpty(StrSplit(t)) : t \in StrUpTo(SegChars, MaxRenderLen)} :
        \A i \in 1..Len(c) : c[i] \notin {<<".">>, <<".", ".">>}}

\* Locators of this and of other servers: another host, another port, a
\* port that only begins like the expected one; each with a plain path and
\* with a path that climbs back to the expected host and port.
OtherServerHrefs ==
    {BaseHref(host, port) \o tail :
        host \in {Host, <<"e">>},
        port \in {Port, Port + 1, 10 * Port + 1},
        tail \in {<<"/", "x">>,
                  <<"/", ".", ".", "/">> \o Host \o <<":">> \o FormatDecimal(Port)
                      \o <<"/", "x">>}}

HrefInputs ==
    LET tails == StrUpTo(HrefChars, MaxHrefLen) IN
    tails \cup {BaseHref(Host, Port) \o t : t \in tails} \cup OtherServerHrefs

PathInit ==
    /\ pFn \in {"parseRemote", "parseLocalRelative", "fromHref", "toHref"}
    /\ pIn \in CASE pFn \in {"parseRemote", "parseLocalRelative"} -> StrUpTo(PathChars, MaxPathLen)
                 [] pFn = "fromHref" -> HrefInputs
                 [] pFn = "toHref" -> ComponentSequences
    /\ cwd \in IF pFn = "fromHref" THEN CwdChoices ELSE {<<>>}
    /\ pMid = <<>>
    /\ pOut = <<>>
    /\ pPc = "ready"
    /\ ServerIdle
    /\ MkdirIdle
    /\ LsIdle
    /\ GetIdle
    /\ PutIdle
    /\ BatchIdle

\* --------------------------------------------- path algebra: the actions
ParseRemote ==
    /\ pFn = "parseRemote" /\ pPc = "ready"
    /\ pOut' = remote_path_to_remote_path_components(pIn)
    /\ pPc' = "done"
    /\ UNCHANGED <<cwd, pFn, pIn, pMid, notPathVars>>

ParseLocalRelative ==
    /\ pFn = "parseLocalRelative" /\ pPc = "ready"
    /\ pOut' = relative_local_path_to_relative_local_path_components(pIn)
    /\ pPc' = "done"
    /\ UNCHANGED <<cwd, pFn, pIn, pMid, notPathVars>>

\* fromResourceLocator, then (when it returned) toResourceLocator of its result
FromHref ==
    /\ pFn = "fromHref" /\ pPc = "ready"
    /\ pMid' = href_to_remote_path_components(Host, Port, pIn)
    /\ pPc' = IF pMid'.ok THEN "parsed" ELSE "done"
    /\ UNCHANGED <<cwd, pFn, pIn, pOut, notPathVars>>

RenderParsed ==
    /\ pFn = "fromHref" /\ pPc = "parsed"
    /\ pOut' = remote_path_components_to_href(Host, Port, pMid.components)
    /\ pPc' = "done"
    /\ UNCHANGED <<cwd, pFn, pIn, pMid, notPathVars>>

\* toResourceLocator, then fromResourceLocator of the locator it produced
ToHref ==
    /\ pFn = "toHref" /\ pPc = "ready"
    /\ pMid' = remote_path_components_to_href(Host, Port, pIn)
    /\ pPc' = "rendered"
    /\ UNCHANGED <<cwd, pFn, pIn, pOut, notPathVars>>

ParseRendered ==
    /\ pFn = "toHref" /\ pPc = "rendered"
    /\ pOut' = href_to_remote_path_components(Host, Port, pMid)
    /\ pPc' = "done"
    /\ UNCHANGED <<cwd, pFn, pIn, pMid, notPathVars>>

PathNext ==
    \/ ParseRemote
    \/ ParseLocalRelative
    \/ FromHref
    \/ RenderParsed
    \/ ToHref
    \/ ParseRendered

SpecPath == PathInit /\ [][PathNext]_vars

\* ------------------------------------------------------------ the trees
Names == {<<"a">>, <<"b">>}

PathsOf(tree) == {e.path : e \in tree}
DirectoriesOf(tree) == {<<>>} \cup {e.path : e \in {x \in tree : x.kind = "dir"}}
FilesOf(tree) == {e.path : e \in {x \in tree : x.kind = "file"}}

\* The trees of at most n entries: each entry lies in the root or in a
\* directory of the tree, and no path has two entries.
RECURSIVE TreesUpTo(_, _)
TreesUpTo(kinds, n) ==
    IF n = 0 THEN {{}}
    ELSE LET smaller == TreesUpTo(kinds, n - 1) IN
         smaller \cup UNION {
             {t \cup {[path |-> Append(d, name), kind |-> k]} :
                  d \in {x \in DirectoriesOf(t) : Append(x, name) \notin PathsOf(t)},
                  k \in kinds} :
             t \in smaller, name \in Names}

RECURSIVE PathsOfLen(_)
PathsOfLen(n) ==
    IF n = 0 THEN {<<>>}
    ELSE {Append(q, name) : q \in PathsOfLen(n - 1), name \in Names}

PathsUpTo(n) == UNION {PathsOfLen(k) : k \in 0..n}

\* The orders in which the members of a set may come.
RECURSIVE Orderings(_)
Orderings(set) ==
    IF set = {} THEN {<<>>}
    ELSE UNION {{<<x>> \o rest : rest \in Orderings(set \ {x})} : x \in set}

Prefixes(path) == {SubSeq(path, 1, k) : k \in 0..Len(path)}

\* ----------------------------------------------------------- the server
\* The path the server reads from a request's locator.
RequestTarget(remote_path_components) ==
    href_to_remote_path_components(
        Host, Port,
        remote_path_components_to_href(Host, Port, remote_path_components)).components

StatusCreated == 201
StatusNotAllowed == 405
StatusConflict == 409

\* The status of a creation request on the faithful server: created
\* exactly when the parent is a directory and the target does not exist.
FaithfulMkcolStatus(tree, target) ==
    IF target = <<>> \/ target \in PathsOf(tree) THEN StatusNotAllowed
    ELSE IF ButLast(target) \notin DirectoriesOf(tree) THEN StatusConflict
    ELSE StatusCreated

\* The server answers one creation request with `status`.
ServeMkcol(remote_path_components, status) ==
    LET target == RequestTarget(remote_path_components) IN
    /\ status \in {StatusCreated, StatusNotAllowed, StatusConflict}
    /\ srv = "faithful" => status = FaithfulMkcolStatus(remote, target)
    /\ remote' = IF srv = "faithful" /\ status = StatusCreated
                 THEN remote \cup {[path |-> target, kind |-> "dir"]}
                 ELSE remote
    /\ mkLog' = Append(mkLog, [path |-> target, status |-> status])

\* ------------------------------------------- directory creation planner
\* create_directory_from_remote_path_components, given the response
create_directory_from_remote_path_components(status) == status = StatusCreated

NewCall(path, from) ==
    [path |-> path, pc |-> "enter", from |-> from, to |-> 0, result |-> FALSE]

ReturnFrom(call, result, to) ==
    [call EXCEPT !.pc = "returned", !.result = result, !.to = to]

MkdirInit ==
    /\ srv \in {"faithful", "arbitrary"}
    /\ remote \in IF srv = "faithful" THEN TreesUpTo({"dir", "file"}, MaxEntries) ELSE {{}}
    /\ remote0 = remote
    /\ mkCalls \in {<<NewCall(path, 1)>> : path \in PathsUpTo(MaxDepth)}
    /\ mkLog = <<>>
    /\ PathIdle
    /\ LsIdle
    /\ GetIdle
    /\ PutIdle
    /\ BatchIdle

\* The invocation that is running: the innermost one that has not returned
\* (0 when the outermost has returned).
MkActive ==
    LET open == {i \in 1..Len(mkCalls) : mkCalls[i].pc # "returned"} IN
    IF open = {} THEN 0 ELSE CHOOSE i \in open : \A j \in open : j <= i

\* "The root directory always exists"
MkReturnRoot ==
    LET i == MkActive IN
    /\ i > 0
    /\ mkCalls[i].pc = "enter"
    /\ mkCalls[i].path = <<>>
    /\ mkCalls' = [mkCalls EXCEPT ![i] = ReturnFrom(@, TRUE, Len(mkLog))]
    /\ UNCHANGED <<serverVars, mkLog, notMkdirVars>>

\* Faulty variant: no optimistic attempt, the parent path is ensured first.
MkTryDirect_ParentFirst ==
    LET i == MkActive IN
    /\ i > 0
    /\ mkCalls[i].pc = "enter"
    /\ mkCalls[i].path # <<>>
    /\ mkCalls' = Append([mkCalls EXCEPT ![i].pc = "wait"],
                         NewCall(ButLast(mkCalls[i].path), Len(mkLog) + 1))
    /\ UNCHANGED <<serverVars, mkLog, notMkdirVars>>

\* "Try directly making the final directory"; on failure, invoke itself
\* on the path without its last segment.
MkTryDirect ==
    LET i == MkActive IN
    /\ i > 0
    /\ mkCalls[i].pc = "enter"
    /\ mkCalls[i].path # <<>>
    /\ \E status \in {StatusCreated, StatusNotAllowed, StatusConflict} :
          /\ ServeMkcol(mkCalls[i].path, status)
          /\ mkCalls' =
                IF create_directory_from_remote_path_components(status)
                THEN [mkCalls EXCEPT ![i] = ReturnFrom(@, TRUE, Len(mkLog) + 1)]
                ELSE Append([mkCalls EXCEPT ![i].pc = "wait"],
                            NewCall(ButLast(mkCalls[i].path), Len(mkLog) + 2))
    /\ UNCHANGED <<srv, remote0, notMkdirVars>>

\* Faulty variant: the final directory is tried again until it is created.
MkRetryAfterParent_UntilCreated ==
    LET i == MkActive IN
    /\ i > 0
    /\ mkCalls[i].pc = "wait"
    /\ mkCalls[i + 1].result
    /\ \E status \in {StatusCreated, StatusNotAllowed, StatusConflict} :
          /\ ServeMkcol(mkCalls[i].path, status)
          /\ mkCalls' = IF create_directory_from_remote_path_components(status)
                        THEN [mkCalls EXCEPT ![i] = ReturnFrom(@, TRUE, Len(mkLog) + 1)]
                        ELSE mkCalls
    /\ UNCHANGED <<srv, remote0, notMkdirVars>>

\* The inner invocation returned True: "try directly making the final
\* directory again", and return what that gives.
MkRetryAfterParent ==
    LET i == MkActive IN
    /\ i > 0
    /\ mkCalls[i].pc = "wait"
    /\ mkCalls[i + 1].result
    /\ \E status \in {StatusCreated, StatusNotAllowed, StatusConflict} :
          /\ ServeMkcol(mkCalls[i].path, status)
          /\ mkCalls' = [mkCalls EXCEPT ![i] =
                ReturnFrom(@, create_directory_from_remote_path_components(status),
                           Len(mkLog) + 1)]
    /\ UNCHANGED <<srv, remote0, notMkdirVars>>

\* Faulty variant: the final directory is tried again although the parent failed.
MkFailAfterParent_RetriesAnyway ==
    LET i == MkActive IN
    /\ i > 0
    /\ mkCalls[i].pc = "wait"
    /\ ~mkCalls[i + 1].result
    /\ \E status \in {StatusCreated, StatusNotAllowed, StatusConflict} :
          /\ ServeMkcol(mkCalls[i].path, status)
          /\ mkCalls' = [mkCalls EXCEPT ![i] =
                ReturnFrom(@, create_directory_from_remote_path_components(status),
                           Len(mkLog) + 1)]
    /\ UNCHANGED <<srv, remote0, notMkdirVars>>

\* The inner invocation returned False: return False.
MkFailAfterParent ==
    LET i == MkActive IN
    /\ i > 0
    /\ mkCalls[i].pc = "wait"
    /\ ~mkCalls[i + 1].result
    /\ mkCalls' = [mkCalls EXCEPT ![i] = ReturnFrom(@, FALSE, Len(mkLog))]
    /\ UNCHANGED <<serverVars, mkLog, notMkdirVars>>

MkdirNext ==
    \/ MkReturnRoot
    \/ MkTryDirect
    \/ MkRetryAfterParent
    \/ MkFailAfterParent

SpecMkdir == MkdirInit /\ [][MkdirNext]_vars

\* The operation has a step to take: the innermost invocation is at its
\* entry, or waits for an inner invocation that has returned.
MkCanStep ==
    LET i == MkActive IN
    /\ i > 0
    /\ \/ mkCalls[i].pc = "enter"
       \/ /\ mkCalls[i].pc = "wait"
          /\ i < Len(mkCalls)
          /\ mkCalls[i + 1].pc = "returned"

\* The process keeps running and every creation request is answered: as
\* long as the operation has a step to take, it takes one.
SpecMkdirLive ==
    MkdirInit /\ [][MkdirNext]_vars /\ ([]<>~MkCanStep \/ []<><<MkdirNext>>_vars)

\* --------------------------------------------------- listing classifier
StatusMulti == 207
StatusNotFound == 404

\* One response node of a listing: its locator text (hasHref is false for
\* a node with no locator, or an empty one) and whether a collection
\* element marks it as a directory.
Entry(hasHref, href, collection) ==
    [hasHref |-> hasHref, href |-> href, collection |-> collection]

Pair(path, is_collection) == [path |-> path, is_collection |-> is_collection]

\* iterate_listings_and_is_directories, given the response, consumed to
\* its end: the (path, is_collection) pairs it yields, or the error a
\* locator raises.
RECURSIVE ListingPairs(_, _, _)
ListingPairs(entries, i, pairs) ==
    IF i > Len(entries) THEN [ok |-> TRUE, pairs |-> pairs]
    ELSE IF ~entries[i].hasHref THEN ListingPairs(entries, i + 1, pairs)
    ELSE LET parsed == href_to_remote_path_components(Host, Port, entries[i].href) IN
         IF ~parsed.ok THEN [ok |-> FALSE, pairs |-> <<>>]
         ELSE ListingPairs(entries, i + 1,
                           Append(pairs, Pair(parsed.components, entries[i].collection)))

\* Faulty variant: the entries are read whatever the status of the response.
iterate_listings_and_is_directories_AnyStatus(response) ==
    ListingPairs(response.entries, 1, <<>>)

iterate_listings_and_is_directories(response) ==
    IF response.status = StatusMulti
    THEN ListingPairs(response.entries, 1, <<>>)
    ELSE [ok |-> TRUE, pairs |-> <<>>]

\* Faulty variant: a key keeps the value of its first pair.
RECURSIVE DictOf_FirstValueKept(_, _, _)
DictOf_FirstValueKept(pairs, i, items) ==
    IF i > Len(pairs) THEN items
    ELSE IF \E k \in 1..Len(items) : items[k].path = pairs[i].path
         THEN DictOf_FirstValueKept(pairs, i + 1, items)
         ELSE DictOf_FirstValueKept(pairs, i + 1, Append(items, pairs[i]))

\* dict(pairs): a key keeps the place of its first pair and the value of
\* its last.
RECURSIVE DictOf(_, _, _)
DictOf(pairs, i, items) ==
    IF i > Len(pairs) THEN items
    ELSE LET at == {k \in 1..Len(items) : items[k].path = pairs[i].path} IN
         IF at = {}
         THEN DictOf(pairs, i + 1, Append(items, pairs[i]))
         ELSE DictOf(pairs, i + 1,
                     [k \in 1..Len(items) |->
                         IF k \in at THEN pairs[i] ELSE items[k]])

NotFound == [tag |-> "NotFound", file_path_components |-> <<>>,
             containing_file_path_components |-> <<>>,
             containing_directory_path_components |-> <<>>]

IsFile(file_path_components) ==
    [tag |-> "IsFile", file_path_components |-> file_path_components,
     containing_file_path_components |-> <<>>,
     containing_directory_path_components |-> <<>>]

IsDirectory(containing_file_path_components, containing_directory_path_components) ==
    [tag |-> "IsDirectory", file_path_components |-> <<>>,
     containing_file_path_components |-> containing_file_path_components,
     containing_directory_path_components |-> containing_directory_path_components]

\* The listing could not be read: a locator raised ValueError.
ListingRaised == [tag |-> "Raised", file_path_components |-> <<>>,
                  containing_file_path_components |-> <<>>,
                  containing_directory_path_components |-> <<>>]

PathsIn(items) == [k \in 1..Len(items) |-> items[k].path]

\* Faulty variant: the target's own entry is not deleted before the partition.
list_remote_file_or_directory_KeepsOwnEntry(remote_path_components, response) ==
    LET listing == iterate_listings_and_is_directories(response)
        listings_to_is_directories == DictOf(listing.pairs, 1, <<>>)
        own == SelectSeq(listings_to_is_directories,
                         LAMBDA item : item.path = remote_path_components)
    IN  IF ~listing.ok THEN ListingRaised
        ELSE IF own = <<>> THEN NotFound
        ELSE IF ~own[1].is_collection THEN IsFile(remote_path_components)
        ELSE IsDirectory(
                 PathsIn(SelectSeq(listings_to_is_directories,
                                   LAMBDA item : ~item.is_collection)),
                 PathsIn(SelectSeq(listings_to_is_directories,
                                   LAMBDA item : item.is_collection)))

list_remote_file_or_directory(remote_path_components, response) ==
    LET listing == iterate_listings_and_is_directories(response)
        listings_to_is_directories == DictOf(listing.pairs, 1, <<>>)
        own == SelectSeq(listings_to_is_directories,
                         LAMBDA item : item.path = remote_path_components)
        others == SelectSeq(listings_to_is_directories,
                            LAMBDA item : item.path # remote_path_components)
    IN  IF ~listing.ok THEN ListingRaised
        ELSE IF own = <<>> THEN NotFound
        ELSE IF ~own[1].is_collection THEN IsFile(remote_path_components)
        ELSE IsDirectory(
                 PathsIn(SelectSeq(others, LAMBDA item : ~item.is_collection)),
                 PathsIn(SelectSeq(others, LAMBDA item : item.is_collection)))

\* Locators a server may put in a listing: relative ones, with and without
\* a trailing separator, an absolute one, and one the client refuses.
SampleHrefs ==
    { <<"/">>,
      <<"/", "a">>,
      <<"/", "a", "/">>,
      <<"/", "a", "/", "b">>,
      <<"/", "b">>,
      BaseHref(Host, Port) \o <<"/", "a", "/", "b", "/">>,
      <<"a">> }

SampleEntries ==
    {Entry(TRUE, href, collection) : href \in SampleHrefs, collection \in BOOLEAN}
        \cup {Entry(FALSE, <<>>, FALSE)}

RECURSIVE EntriesOfLen(_)
EntriesOfLen(n) ==
    IF n = 0 THEN {<<>>}
    ELSE {Append(es, e) : es \in EntriesOfLen(n - 1), e \in SampleEntries}

Responses(n) ==
    {[status |-> status, entries |-> entries] :
        status \in {StatusMulti, StatusNotFound},
        entries \in UNION {EntriesOfLen(k) : k \in 0..n}}

ListInit ==
    /\ lsTarget \in {<<>>, << <<"a">> >>, << <<"a">>, <<"b">> >>}
    /\ lsResponse \in Responses(MaxListing)
    /\ lsResult = <<>>
    /\ lsPc = "ready"
    /\ PathIdle
    /\ ServerIdle
    /\ MkdirIdle
    /\ GetIdle
    /\ PutIdle
    /\ BatchIdle

Classify ==
    /\ lsPc = "ready"
    /\ lsResult' = list_remote_file_or_directory(lsTarget, lsResponse)
    /\ lsPc' = "done"
    /\ UNCHANGED <<lsTarget, lsResponse, notLsVars>>

ListNext == Classify

SpecList == ListInit /\ [][ListNext]_vars

\* ------------------------------------------------------- get planner
DownloadRemoteFile(remote_file_path_components, relative_local_file_path_components) ==
    [action |-> "DownloadRemoteFile",
     remote |-> remote_file_path_components,
     local |-> relative_local_file_path_components]

CreateLocalDirectory(relative_local_directory_path_components) ==
    [action |-> "CreateLocalDirectory",
     remote |-> <<>>,
     local |-> relative_local_directory_path_components]

\* The locator the faithful server gives a resource: the relative form,
\* with a trailing separator for a directory.
ServerHref(path, kind) ==
    <<"/">> \o StrJoin(MapQuote(path))
            \o (IF kind = "dir" /\ path # <<>> THEN <<"/">> ELSE <<>>)

\* The faithful server's answers to a depth-1 listing request: the target
\* and its immediate children, in any order; not found when it is absent.
FaithfulListings(tree, target) ==
    LET whole   == tree \cup {[path |-> <<>>, kind |-> "dir"]}
        own     == {e \in whole : e.path = target}
        inside  == {e \in tree : ButLast(e.path) = target}
        shown   == IF \E e \in own : e.kind = "dir" THEN own \cup inside ELSE own
        entries == {Entry(TRUE, ServerHref(e.path, e.kind), e.kind = "dir") : e \in shown}
    IN  IF own = {}
        THEN {[status |-> StatusNotFound, entries |-> <<>>]}
        ELSE {[status |-> StatusMulti, entries |-> es] : es \in Orderings(entries)}

PlannerHrefs ==
    {<<"/">>, <<"/", "a", "/">>, <<"/", "a", "/", "b">>,
     <<"/", "a", "/", "b", "%", "2", "F", "c">>, <<"a">>}

PlannerEntries ==
    {Entry(TRUE, href, collection) : href \in PlannerHrefs, collection \in BOOLEAN}

RECURSIVE PlannerEntriesOfLen(_)
PlannerEntriesOfLen(n) ==
    IF n = 0 THEN {<<>>}
    ELSE {Append(es, e) : es \in PlannerEntriesOfLen(n - 1), e \in PlannerEntries}

ArbitraryListings ==
    {[status |-> StatusNotFound, entries |-> <<>>]}
        \cup {[status |-> StatusMulti, entries |-> entries] :
                 entries \in UNION {PlannerEntriesOfLen(k) : k \in 0..MaxGetListing}}

\* The server answers one listing request with `response`.
ServeListing(remote_path_components, response) ==
    /\ srv = "faithful" =>
          response \in FaithfulListings(remote, RequestTarget(remote_path_components))
    /\ srv = "arbitrary" => response \in ArbitraryListings

\* What may lie under the destination directory before the command: nothing,
\* a directory or a file.
LocalStarts ==
    {{}, {[path |-> << <<"a">> >>, kind |-> "dir", data |-> "none"]},
         {[path |-> << <<"a">> >>, kind |-> "file", data |-> "bytes"]}}

\* The local prefix a caller passes is a directory that exists.
CallerPrefixDirectory(relative_local_path_prefix) ==
    IF relative_local_path_prefix = <<>> THEN {}
    ELSE {[path |-> relative_local_path_prefix, kind |-> "dir", data |-> "none"]}

NewGetCall(remote_path_components, relative_local_path_prefix, parent, from) ==
    [remote_path_components |-> remote_path_components,
     relative_local_path_prefix |-> relative_local_path_prefix,
     pc |-> "list", list_result |-> NotFound,
     files |-> 0, directories |-> 0,
     parent |-> parent, from |-> from, to |-> 0]

GetInit ==
    /\ srv \in {"faithful", "arbitrary"}
    /\ remote \in IF srv = "faithful" THEN TreesUpTo({"dir", "file"}, MaxEntries) ELSE {{}}
    /\ remote0 = remote
    /\ \E target \in PathsUpTo(2), prefix \in {<<>>, << <<"p">> >>} :
          /\ srv = "faithful" => target \in {<<>>, << <<"a">> >>, << <<"b">>, <<"a">> >>}
          /\ srv = "arbitrary" => target \in {<<>>, << <<"a">> >>}
          /\ getCalls = <<NewGetCall(target, prefix, 0, 1)>>
    /\ getOut = <<>>
    /\ getLog = <<>>
    /\ getPc = "running"
    /\ getWire = <<>>
    /\ getLocal \in {start \cup CallerPrefixDirectory(getCalls[1].relative_local_path_prefix) :
                       start \in LocalStarts}
    /\ getLocal0 = getLocal
    /\ getDone = 0
    /\ getXfer = <<>>
    /\ PathIdle
    /\ MkdirIdle
    /\ LsIdle
    /\ PutIdle
    /\ BatchIdle

\* The invocation that is running: the innermost one that has not returned.
GetActive ==
    LET open == {i \in 1..Len(getCalls) : getCalls[i].pc # "returned"} IN
    IF open = {} THEN 0 ELSE CHOOSE i \in open : \A j \in open : j <= i

new_relative_local_path_prefix(call) ==
    IF call.remote_path_components = <<>>
    THEN call.relative_local_path_prefix
    ELSE Append(call.relative_local_path_prefix, Last(call.remote_path_components))

GetReturned(calls, i, to) ==
    [calls EXCEPT ![i].pc = "returned", ![i].to = to]

GetPcAfterReturn(i) == IF i = 1 THEN "done" ELSE "running"

\* A request on the wire, and the wire with and without it.
ListingRequest(remote_path_components) ==
    [method |-> "PROPFIND", path |-> remote_path_components]

DownloadRequest(remote_file_path_components) ==
    [method |-> "GET", path |-> remote_file_path_components]

InFlight(request) == \E k \in 1..Len(getWire) : getWire[k] = request

Answered(request) ==
    LET k == CHOOSE k \in 1..Len(getWire) : getWire[k] = request IN
    SubSeq(getWire, 1, k - 1) \o SubSeq(getWire, k + 1, Len(getWire))

\* self.session.request(method='PROPFIND', ...): the listing request is
\* sent when the loop of get() asks the generator for its next action; the
\* call returns when the answer has arrived.
GetSendListing ==
    LET i == GetActive IN
    /\ getPc = "running" /\ i > 0
    /\ getDone = Len(getOut)
    /\ getCalls[i].pc = "list"
    /\ getWire' = Append(getWire, ListingRequest(getCalls[i].remote_path_components))
    /\ getLog' = Append(getLog, getCalls[i].remote_path_components)
    /\ getCalls' = [getCalls EXCEPT ![i].pc = "listing"]
    /\ UNCHANGED <<getPc, getOut, serverVars, getExecVars, notGetVars>>

\* Faulty variant: a target that is not found is an error.
GetList_NotFoundRaises ==
    LET i == GetActive IN
    /\ getPc = "running" /\ i > 0
    /\ getDone = Len(getOut)
    /\ getCalls[i].pc = "listing"
    /\ InFlight(ListingRequest(getCalls[i].remote_path_components))
    /\ \E response \in FaithfulListings(remote, RequestTarget(getCalls[i].remote_path_components))
                          \cup ArbitraryListings :
          /\ ServeListing(getCalls[i].remote_path_components, response)
          /\ LET list_result ==
                     list_remote_file_or_directory(getCalls[i].remote_path_components, response)
             IN  /\ getCalls' =
                        IF list_result.tag = "NotFound"
                        THEN GetReturned(getCalls, i, Len(getOut))
                        ELSE [getCalls EXCEPT ![i].list_result = list_result,
                                              ![i].pc = IF list_result.tag = "IsFile"
                                                        THEN "file" ELSE "directory"]
                 /\ getPc' = IF list_result.tag = "Raised" THEN "raised"
                             ELSE IF list_result.tag = "NotFound" THEN "raised"
                             ELSE "running"
    /\ getWire' = Answered(ListingRequest(getCalls[i].remote_path_components))
    /\ UNCHANGED <<getOut, getLog, serverVars, getExecVars, notGetVars>>

\* list_result = self.list_remote_file_or_directory(...): the answer to
\* the listing request arrives and is classified; nothing is yielded for
\* NotFound.
GetList ==
    LET i == GetActive IN
    /\ getPc = "running" /\ i > 0
    /\ getDone = Len(getOut)
    /\ getCalls[i].pc = "listing"
    /\ InFlight(ListingRequest(getCalls[i].remote_path_components))
    /\ \E response \in FaithfulListings(remote, RequestTarget(getCalls[i].remote_path_components))
                          \cup ArbitraryListings :
          /\ ServeListing(getCalls[i].remote_path_components, response)
          /\ LET list_result ==
                     list_remote_file_or_directory(getCalls[i].remote_path_components, response)
             IN  /\ getCalls' =
                        IF list_result.tag = "NotFound"
                        THEN GetReturned(getCalls, i, Len(getOut))
                        ELSE [getCalls EXCEPT ![i].list_result = list_result,
                                              ![i].pc = IF list_result.tag = "IsFile"
                                                        THEN "file" ELSE "directory"]
                 /\ getPc' = IF list_result.tag = "Raised" THEN "raised"
                             ELSE IF list_result.tag = "NotFound" THEN GetPcAfterReturn(i)
                             ELSE "running"
    /\ getWire' = Answered(ListingRequest(getCalls[i].remote_path_components))
    /\ UNCHANGED <<getOut, getLog, serverVars, getExecVars, notGetVars>>

\* IsFile: yield the download of the file; [-1] of the root's empty
\* sequence raises IndexError.
GetYieldFile ==
    LET i    == GetActive
        file == getCalls[i].list_result.file_path_components
    IN
    /\ getPc = "running" /\ i > 0
    /\ getDone = Len(getOut)
    /\ getCalls[i].pc = "file"
    /\ IF file = <<>>
       THEN /\ getPc' = "raised"
            /\ UNCHANGED <<getCalls, getOut>>
       ELSE /\ getOut' = Append(getOut,
                 DownloadRemoteFile(file,
                     Append(getCalls[i].relative_local_path_prefix, Last(file))))
            /\ getCalls' = GetReturned(getCalls, i, Len(getOut) + 1)
            /\ getPc' = GetPcAfterReturn(i)
    /\ UNCHANGED <<getLog, serverVars, getWire, getExecVars, notGetVars>>

\* Faulty variant: the creation of the local directory is not yielded.
GetEnterDirectory_NoCreate ==
    LET i == GetActive IN
    /\ getPc = "running" /\ i > 0
    /\ getDone = Len(getOut)
    /\ getCalls[i].pc = "directory"
    /\ getOut' = getOut
    /\ getCalls' = [getCalls EXCEPT ![i].pc = "children"]
    /\ UNCHANGED <<getPc, getLog, serverVars, getWire, getExecVars, notGetVars>>

\* IsDirectory: unless the directory is the root, yield the creation of
\* the local directory.
GetEnterDirectory ==
    LET i == GetActive IN
    /\ getPc = "running" /\ i > 0
    /\ getDone = Len(getOut)
    /\ getCalls[i].pc = "directory"
    /\ getOut' = IF getCalls[i].remote_path_components = <<>>
                 THEN getOut
                 ELSE Append(getOut,
                          CreateLocalDirectory(new_relative_local_path_prefix(getCalls[i])))
    /\ getCalls' = [getCalls EXCEPT ![i].pc = "children"]
    /\ UNCHANGED <<getPc, getLog, serverVars, getWire, getExecVars, notGetVars>>

\* Faulty variant: a listing request is issued for each child file.
GetYieldDownload_ListsTheFile ==
    LET i     == GetActive
        files == getCalls[i].list_result.containing_file_path_components
        file  == files[getCalls[i].files + 1]
    IN
    /\ getPc = "running" /\ i > 0
    /\ getDone = Len(getOut)
    /\ getCalls[i].pc = "children"
    /\ getCalls[i].files < Len(files)
    /\ IF file = <<>>
       THEN /\ getPc' = "raised"
            /\ UNCHANGED <<getCalls, getOut>>
       ELSE /\ getOut' = Append(getOut,
                 DownloadRemoteFile(file,
                     Append(new_relative_local_path_prefix(getCalls[i]), Last(file))))
            /\ getCalls' = [getCalls EXCEPT ![i].files = @ + 1]
            /\ UNCHANGED getPc
    /\ getLog' = Append(getLog, file)
    /\ UNCHANGED <<serverVars, getWire, getExecVars, notGetVars>>

\* "Download containing files to new local path prefix"
GetYieldDownload ==
    LET i     == GetActive
        files == getCalls[i].list_result.containing_file_path_components
        file  == files[getCalls[i].files + 1]
    IN
    /\ getPc = "running" /\ i > 0
    /\ getDone = Len(getOut)
    /\ getCalls[i].pc = "children"
    /\ getCalls[i].files < Len(files)
    /\ IF file = <<>>
       THEN /\ getPc' = "raised"
            /\ UNCHANGED <<getCalls, getOut>>
       ELSE /\ getOut' = Append(getOut,
                 DownloadRemoteFile(file,
                     Append(new_relative_local_path_prefix(getCalls[i]), Last(file))))
            /\ getCalls' = [getCalls EXCEPT ![i].files = @ + 1]
            /\ UNCHANGED getPc
    /\ UNCHANGED <<getLog, serverVars, getWire, getExecVars, notGetVars>>

\* Faulty variant: the recursion does not wait for the downloads.
GetRecurse_BeforeFiles ==
    LET i           == GetActive
        directories == getCalls[i].list_result.containing_directory_path_components
    IN
    /\ getPc = "running" /\ i > 0
    /\ getDone = Len(getOut)
    /\ getCalls[i].pc = "children"
    /\ getCalls[i].directories < Len(directories)
    /\ srv = "arbitrary" => Len(getCalls) < MaxGetCalls
    /\ getCalls' = Append([getCalls EXCEPT ![i].directories = @ + 1],
                          NewGetCall(directories[getCalls[i].directories + 1],
                                     new_relative_local_path_prefix(getCalls[i]),
                                     i, Len(getOut) + 1))
    /\ UNCHANGED <<getPc, getOut, getLog, serverVars, getWire, getExecVars, notGetVars>>

\* "Recurse on containing directories"
GetRecurse ==
    LET i           == GetActive
        files       == getCalls[i].list_result.containing_file_path_components
        directories == getCalls[i].list_result.containing_directory_path_components
    IN
    /\ getPc = "running" /\ i > 0
    /\ getDone = Len(getOut)
    /\ getCalls[i].pc = "children"
    /\ getCalls[i].files = Len(files)
    /\ getCalls[i].directories < Len(directories)
    /\ srv = "arbitrary" => Len(getCalls) < MaxGetCalls
    /\ getCalls' = Append([getCalls EXCEPT ![i].directories = @ + 1],
                          NewGetCall(directories[getCalls[i].directories + 1],
                                     new_relative_local_path_prefix(getCalls[i]),
                                     i, Len(getOut) + 1))
    /\ UNCHANGED <<getPc, getOut, getLog, serverVars, getWire, getExecVars, notGetVars>>

\* Faulty variant: the generator may end without the child directories.
GetReturn_BeforeDirectories ==
    LET i == GetActive IN
    /\ getPc = "running" /\ i > 0
    /\ getDone = Len(getOut)
    /\ getCalls[i].pc = "children"
    /\ getCalls[i].files = Len(getCalls[i].list_result.containing_file_path_components)
    /\ getCalls' = GetReturned(getCalls, i, Len(getOut))
    /\ getPc' = GetPcAfterReturn(i)
    /\ UNCHANGED <<getOut, getLog, serverVars, getWire, getExecVars, notGetVars>>

\* Both loops are over: the generator ends.
GetReturn ==
    LET i == GetActive IN
    /\ getPc = "running" /\ i > 0
    /\ getDone = Len(getOut)
    /\ getCalls[i].pc = "children"
    /\ getCalls[i].files = Len(getCalls[i].list_result.containing_file_path_components)
    /\ getCalls[i].directories =
           Len(getCalls[i].list_result.containing_directory_path_components)
    /\ getCalls' = GetReturned(getCalls, i, Len(getOut))
    /\ getPc' = GetPcAfterReturn(i)
    /\ UNCHANGED <<getOut, getLog, serverVars, getWire, getExecVars, notGetVars>>

\* ---------------------------------------------------------- get executor
StatusOK == 200

\* os.path.join(local_directory_path, *components), as the names the
\* operating system walks below the destination directory: a separator
\* inside a component separates names like any other.
OsPathJoin(components) == NonEmpty(StrSplit(StrJoin(components)))

LocalIsdir(local, path) ==
    path = <<>> \/ \E e \in local : e.path = path /\ e.kind = "dir"

LocalExists(local, path) == path = <<>> \/ \E e \in local : e.path = path

\* os.mkdir(path) succeeds when the parent is a directory and nothing is
\* at the path.
OsMkdirSucceeds(local, path) ==
    /\ path # <<>>
    /\ LocalIsdir(local, ButLast(path))
    /\ ~LocalExists(local, path)

\* open(path, 'wb') succeeds when the parent is a directory and the path
\* is not one.
OpenForWritingSucceeds(local, path) ==
    /\ path # <<>>
    /\ LocalIsdir(local, ButLast(path))
    /\ ~LocalIsdir(local, path)

\* The server answers one download request with `status`: the faithful
\* server gives the body of a file only, and may refuse any request.
ServeGet(remote_path_components, status) ==
    srv = "faithful" =>
        (status = StatusOK => RequestTarget(remote_path_components) \in FilesOf(remote))

\* The action the loop of get() is to carry out next.
GetPending == getOut[getDone + 1]

\* if not os.path.isdir(...): os.mkdir(...)
GetExecCreateLocalDirectory ==
    /\ getPc \in {"running", "done"}
    /\ getDone < Len(getOut)
    /\ GetPending.action = "CreateLocalDirectory"
    /\ LET path == OsPathJoin(GetPending.local) IN
       IF LocalIsdir(getLocal, path)
       THEN UNCHANGED <<getLocal, getPc>>
       ELSE IF OsMkdirSucceeds(getLocal, path)
       THEN /\ getLocal' = getLocal \cup {[path |-> path, kind |-> "dir", data |-> "none"]}
            /\ UNCHANGED getPc
       ELSE /\ getPc' = "raised"
            /\ UNCHANGED getLocal
    /\ getDone' = getDone + 1
    /\ UNCHANGED <<getCalls, getOut, getLog, getLocal0, getXfer, getWire, serverVars, notGetVars>>

\* Faulty variant: the loop does not wait for the answer to the download
\* request.
GetOpenAndSendDownload_DoesNotWait ==
    /\ getPc \in {"running", "done"}
    /\ getDone < Len(getOut)
    /\ GetPending.action = "DownloadRemoteFile"
    /\ LET path == OsPathJoin(GetPending.local) IN
       IF ~OpenForWritingSucceeds(getLocal, path)
       THEN /\ getPc' = "raised"
            /\ UNCHANGED <<getLocal, getWire>>
       ELSE /\ getLocal' = {e \in getLocal : e.path # path}
                    \cup {[path |-> path, kind |-> "file", data |-> "empty"]}
            /\ getWire' = Append(getWire, DownloadRequest(GetPending.remote))
            /\ UNCHANGED getPc
    /\ getDone' = getDone + 1
    /\ UNCHANGED <<getCalls, getOut, getLog, getLocal0, getXfer, serverVars, notGetVars>>

\* with open(local_file_path, 'wb') as f: the file is created or emptied,
\* or open raises; then self.session.request(method='GET', ...) is sent.
GetOpenAndSendDownload ==
    /\ getPc \in {"running", "done"}
    /\ getDone < Len(getOut)
    /\ GetPending.action = "DownloadRemoteFile"
    /\ getWire = <<>>
    /\ LET path == OsPathJoin(GetPending.local) IN
       IF ~OpenForWritingSucceeds(getLocal, path)
       THEN /\ getPc' = "raised"
            /\ getDone' = getDone + 1
            /\ UNCHANGED <<getLocal, getWire>>
       ELSE /\ getLocal' = {e \in getLocal : e.path # path}
                    \cup {[path |-> path, kind |-> "file", data |-> "empty"]}
            /\ getWire' = <<DownloadRequest(GetPending.remote)>>
            /\ UNCHANGED <<getPc, getDone>>
    /\ UNCHANGED <<getCalls, getOut, getLog, getLocal0, getXfer, serverVars, notGetVars>>

\* Faulty variant: a status other than 200 is an error.
GetExecDownloadRemoteFile_FailureRaises ==
    /\ getPc \in {"running", "done"}
    /\ getDone < Len(getOut)
    /\ GetPending.action = "DownloadRemoteFile"
    /\ InFlight(DownloadRequest(GetPending.remote))
    /\ LET path == OsPathJoin(GetPending.local) IN
       \E status \in {StatusOK, StatusNotFound} :
          /\ ServeGet(GetPending.remote, status)
          /\ getXfer' = Append(getXfer, [path |-> GetPending.remote, status |-> status])
          /\ getLocal' = {e \in getLocal : e.path # path}
                  \cup {[path |-> path, kind |-> "file",
                         data |-> IF status = StatusOK THEN "bytes" ELSE "empty"]}
          /\ getPc' = IF status = StatusOK THEN getPc ELSE "raised"
    /\ getWire' = Answered(DownloadRequest(GetPending.remote))
    /\ getDone' = getDone + 1
    /\ UNCHANGED <<getCalls, getOut, getLog, getLocal0, serverVars, notGetVars>>

\* The answer to the download request arrives and the chunks of
\* get_file_from_remote_path_components are written: those of the body
\* for status 200, none for any other status.
GetExecDownloadRemoteFile ==
    /\ getPc \in {"running", "done"}
    /\ getDone < Len(getOut)
    /\ GetPending.action = "DownloadRemoteFile"
    /\ InFlight(DownloadRequest(GetPending.remote))
    /\ LET path == OsPathJoin(GetPending.local) IN
       \E status \in {StatusOK, StatusNotFound} :
          /\ ServeGet(GetPending.remote, status)
          /\ getXfer' = Append(getXfer, [path |-> GetPending.remote, status |-> status])
          /\ getLocal' = {e \in getLocal : e.path # path}
                  \cup {[path |-> path, kind |-> "file",
                         data |-> IF status = StatusOK THEN "bytes" ELSE "empty"]}
          /\ UNCHANGED getPc
    /\ getWire' = Answered(DownloadRequest(GetPending.remote))
    /\ getDone' = getDone + 1
    /\ UNCHANGED <<getCalls, getOut, getLog, getLocal0, serverVars, notGetVars>>

GetNext ==
    \/ GetExecCreateLocalDirectory
    \/ GetOpenAndSendDownload
    \/ GetExecDownloadRemoteFile
    \/ GetSendListing
    \/ GetList
    \/ GetYieldFile
    \/ GetEnterDirectory
    \/ GetYieldDownload
    \/ GetRecurse
    \/ GetReturn

SpecGet == GetInit /\ [][GetNext]_vars

\* The command has a step to take: the generator has not ended, or the
\* loop has an action to carry out; an error ends both.
GetRunning ==
    \/ getPc = "running"
    \/ getPc = "done" /\ getDone < Len(getOut)

\* The process keeps running and every request is answered: as long as
\* the command has a step to take, it takes one.
SpecGetLive ==
    GetInit /\ [][GetNext]_vars /\ ([]<>~GetRunning \/ []<><<GetNext>>_vars)

\* ------------------------------------------------------- put planner
UploadLocalFile(local_file_path, relative_remote_file_path_components) ==
    [action |-> "UploadLocalFile",
     local |-> local_file_path,
     remote |-> relative_remote_file_path_components]

CreateRemoteDirectory(relative_remote_directory_path_components) ==
    [action |-> "CreateRemoteDirectory",
     local |-> <<>>,
     remote |-> relative_remote_directory_path_components]

\* The kind of the entry at an absolute local path: "dir" for the root,
\* "none" where there is nothing.
KindAt(tree, path) ==
    IF path = <<>> THEN "dir"
    ELSE IF \E e \in tree : e.path = path
         THEN (CHOOSE e \in tree : e.path = path).kind
         ELSE "none"

\* os.path.basename(absolute_local_path): empty for the root.
Basename(path) == IF path = <<>> THEN <<>> ELSE Last(path)

\* os.path.isfile and os.path.isdir follow symbolic links.
OsPathIsfile(tree, path) == KindAt(tree, path) = "file"
OsPathIsdir(tree, path) == KindAt(tree, path) \in {"dir", "linkdir"}

\* os.path.relpath(dirpath, absolute_local_path) of a directory of the walk.
OsPathRelpath(dirpath, top) ==
    IF dirpath = top THEN <<".">>
    ELSE StrJoin(SubSeq(dirpath, Len(top) + 1, Len(dirpath)))

\* The names os.walk puts in dirnames (directories, symbolic links to
\* directories included) and in filenames (every other entry).
DirnamesOf(tree, dirpath) ==
    {Last(e.path) : e \in {x \in tree : ButLast(x.path) = dirpath
                                         /\ x.kind \in {"dir", "linkdir"}}}

FilenamesOf(tree, dirpath) ==
    {Last(e.path) : e \in {x \in tree : ButLast(x.path) = dirpath
                                         /\ x.kind \in {"file", "special"}}}

\* The subdirectories os.walk goes on to visit: those of dirnames, in
\* order, that are not symbolic links.
RECURSIVE WalkInto(_, _, _)
WalkInto(tree, dirpath, dirnames) ==
    IF dirnames = <<>> THEN <<>>
    ELSE (IF KindAt(tree, Append(dirpath, Head(dirnames))) = "dir"
          THEN <<Append(dirpath, Head(dirnames))>> ELSE <<>>)
         \o WalkInto(tree, dirpath, Tail(dirnames))

PutInit ==
    /\ putTree \in {t \in TreesUpTo({"dir", "file", "special", "linkdir"}, MaxLocalEntries) :
                       \A e \in t : e.path[1] = <<"a">>}
    /\ putTop \in {<<>>, << <<"a">> >>, << <<"a">>, <<"a">> >>, << <<"b">> >>}
    /\ putPrefix \in {<<>>, << <<"r">> >>}
    /\ putOut = <<>>
    /\ putWalk = <<>>
    /\ putFrame = <<>>
    /\ putPc = "start"
    /\ PathIdle
    /\ ServerIdle
    /\ MkdirIdle
    /\ LsIdle
    /\ GetIdle
    /\ BatchIdle

\* Faulty variant: the top directory's creation is not yielded.
PutStart_NoTopCreate ==
    /\ putPc = "start"
    /\ IF Basename(putTop) # <<>> /\ OsPathIsfile(putTree, putTop)
       THEN /\ putOut' = <<UploadLocalFile(putTop, Append(putPrefix, Basename(putTop)))>>
            /\ putPc' = "done"
            /\ UNCHANGED putWalk
       ELSE IF Basename(putTop) # <<>> /\ OsPathIsdir(putTree, putTop)
       THEN /\ putOut' = <<>>
            /\ putPc' = "walking"
            /\ putWalk' = <<putTop>>
       ELSE /\ putPc' = "raised"
            /\ UNCHANGED <<putOut, putWalk>>
    /\ UNCHANGED <<putTree, putTop, putPrefix, putFrame, notPutVars>>

\* Faulty variant: a file is uploaded under its bare name, the remote
\* prefix dropped.
PutStart_PrefixDropped ==
    /\ putPc = "start"
    /\ IF Basename(putTop) # <<>> /\ OsPathIsfile(putTree, putTop)
       THEN /\ putOut' = <<UploadLocalFile(putTop, <<Basename(putTop)>>)>>
            /\ putPc' = "done"
            /\ UNCHANGED putWalk
       ELSE IF Basename(putTop) # <<>> /\ OsPathIsdir(putTree, putTop)
       THEN /\ putOut' = <<CreateRemoteDirectory(Append(putPrefix, Basename(putTop)))>>
            /\ putPc' = "walking"
            /\ putWalk' = <<putTop>>
       ELSE /\ putPc' = "raised"
            /\ UNCHANGED <<putOut, putWalk>>
    /\ UNCHANGED <<putTree, putTop, putPrefix, putFrame, notPutVars>>

\* The planner up to its first yield or to its ValueError.
PutStart ==
    /\ putPc = "start"
    /\ IF Basename(putTop) # <<>> /\ OsPathIsfile(putTree, putTop)
       THEN /\ putOut' = <<UploadLocalFile(putTop, Append(putPrefix, Basename(putTop)))>>
            /\ putPc' = "done"
            /\ UNCHANGED putWalk
       ELSE IF Basename(putTop) # <<>> /\ OsPathIsdir(putTree, putTop)
       THEN /\ putOut' = <<CreateRemoteDirectory(Append(putPrefix, Basename(putTop)))>>
            /\ putPc' = "walking"
            /\ putWalk' = <<putTop>>
       ELSE /\ putPc' = "raised"
            /\ UNCHANGED <<putOut, putWalk>>
    /\ UNCHANGED <<putTree, putTop, putPrefix, putFrame, notPutVars>>

\* os.walk yields the next directory, top-down: its subdirectories are
\* visited next, in the order of dirnames, before the directories that
\* were already waiting. The planner computes the remote prefix of the
\* directory from its relative path.
PutWalkNext ==
    /\ putPc = "walking"
    /\ putFrame = <<>>
    /\ putWalk # <<>>
    /\ LET dirpath == Head(putWalk)
           relative_local_path_components ==
               relative_local_path_to_relative_local_path_components(
                   OsPathRelpath(dirpath, putTop))
       IN  \E dirnames \in Orderings(DirnamesOf(putTree, dirpath)),
              filenames \in Orderings(FilenamesOf(putTree, dirpath)) :
              IF ~relative_local_path_components.ok
              THEN /\ putPc' = "raised"
                   /\ UNCHANGED <<putWalk, putFrame>>
              ELSE /\ putFrame' = <<[dirpath |-> dirpath,
                                     new_relative_remote_path_prefix |->
                                         Append(putPrefix, Basename(putTop))
                                             \o relative_local_path_components.components,
                                     dirnames |-> dirnames,
                                     filenames |-> filenames]>>
                   /\ putWalk' = WalkInto(putTree, dirpath, dirnames) \o Tail(putWalk)
                   /\ UNCHANGED putPc
    /\ UNCHANGED <<putTree, putTop, putPrefix, putOut, notPutVars>>

\* for dirname in dirnames: yield CreateRemoteDirectory(...)
PutYieldDirectory ==
    /\ putPc = "walking"
    /\ putFrame # <<>>
    /\ putFrame[1].dirnames # <<>>
    /\ putOut' = Append(putOut,
           CreateRemoteDirectory(Append(putFrame[1].new_relative_remote_path_prefix,
                                        Head(putFrame[1].dirnames))))
    /\ putFrame' = <<[putFrame[1] EXCEPT !.dirnames = Tail(@)]>>
    /\ UNCHANGED <<putTree, putTop, putPrefix, putWalk, putPc, notPutVars>>

\* for filename in filenames: yield UploadLocalFile(...)
PutYieldFile ==
    /\ putPc = "walking"
    /\ putFrame # <<>>
    /\ putFrame[1].dirnames = <<>>
    /\ putFrame[1].filenames # <<>>
    /\ putOut' = Append(putOut,
           UploadLocalFile(Append(putFrame[1].dirpath, Head(putFrame[1].filenames)),
                           Append(putFrame[1].new_relative_remote_path_prefix,
                                  Head(putFrame[1].filenames))))
    /\ putFrame' = <<[putFrame[1] EXCEPT !.filenames = Tail(@)]>>
    /\ UNCHANGED <<putTree, putTop, putPrefix, putWalk, putPc, notPutVars>>

\* Both loops over the directory are done; the walk ends when no directory
\* is left to visit.
PutLeave ==
    /\ putPc = "walking"
    /\ putFrame # <<>>
    /\ putFrame[1].dirnames = <<>>
    /\ putFrame[1].filenames = <<>>
    /\ putFrame' = <<>>
    /\ putPc' = IF putWalk = <<>> THEN "done" ELSE "walking"
    /\ UNCHANGED <<putTree, putTop, putPrefix, putOut, putWalk, notPutVars>>

PutNext ==
    \/ PutStart
    \/ PutWalkNext
    \/ PutYieldDirectory
    \/ PutYieldFile
    \/ PutLeave

SpecPut == PutInit /\ [][PutNext]_vars

\* ------------------------------------------------- main: the commands
StatusNoContent == 204

MaxTargets == 2

\* Remote paths given on the command line: a file, a directory, the root,
\* and one whose parent reference pops past the root.
RemoteArguments ==
    {<<"/", "f">>, <<"/", "d">>, <<"/">>, <<"/", ".", ".", "/", "x">>}

\* What lies in the local working directory of put: a regular file, an
\* empty directory and a special file.
BatchLocalTree ==
    {[path |-> << <<"f">> >>, kind |-> "file"],
     [path |-> << <<"d">> >>, kind |-> "dir"],
     [path |-> << <<"s">> >>, kind |-> "special"]}

\* Local paths given to put, as absolute paths: the three entries and one
\* that does not exist.
LocalArguments == {<< <<"f">> >>, << <<"d">> >>, << <<"s">> >>, << <<"n">> >>}

RECURSIVE SequencesOfLen(_, _)
SequencesOfLen(set, n) ==
    IF n = 0 THEN {<<>>}
    ELSE {Append(seq, x) : seq \in SequencesOfLen(set, n - 1), x \in set}

\* The answers to the listing request of a target that the commands are
\* run against: not found, the target as a file, the target as an empty
\* directory, and a listing with a locator that does not resolve.
BatchListings(remote_path_components) ==
    {[status |-> StatusNotFound, entries |-> <<>>],
     [status |-> StatusMulti,
      entries |-> <<Entry(TRUE, ServerHref(remote_path_components, "file"), FALSE)>>],
     [status |-> StatusMulti,
      entries |-> <<Entry(TRUE, ServerHref(remote_path_components, "dir"), TRUE)>>],
     [status |-> StatusMulti, entries |-> <<Entry(TRUE, <<"a">>, FALSE)>>]}

Line(stream, text) == [target |-> bNext, stream |-> stream, text |-> text]

Request(method, remote_path_components, status) ==
    [target |-> bNext, method |-> method, path |-> remote_path_components,
     status |-> status]

BatchInit ==
    /\ bCmd \in [name : {"ls", "mkdir"}, p : BOOLEAN, remote_directory_path : {<<"/">>}]
           \cup [name : {"get", "rm"}, p : {FALSE}, remote_directory_path : {<<"/">>}]
           \cup [name : {"put"}, p : {FALSE},
                 remote_directory_path : {<<"/">>, <<"/", ".", ".", "/", "x">>}]
    /\ bTargets \in UNION {SequencesOfLen(IF bCmd.name = "put" THEN LocalArguments
                                          ELSE RemoteArguments, n) : n \in 1..MaxTargets}
    /\ bCmd.name = "ls" => (Len(bTargets) = 1 /\ ~bCmd.p)
    /\ bCmd.name = "mkdir" => Len(bTargets) = 1
    /\ bNext = 1
    /\ bLines = <<>>
    /\ bLog = <<>>
    /\ bLocal = {}
    /\ bPc = "running"
    /\ PathIdle
    /\ ServerIdle
    /\ MkdirIdle
    /\ LsIdle
    /\ GetIdle
    /\ PutIdle

\* The loop of main goes on to the next target, or main returns.
BatchPcAfter == IF bNext = Len(bTargets) THEN "done" ELSE "running"

\* An exception leaves the command and main: the interpreter writes the
\* traceback and the process ends.
BatchCrash(error, requests) ==
    /\ bPc' = "crashed"
    /\ bLines' = Append(bLines, Line("stderr", error))
    /\ bLog' = bLog \o requests
    /\ UNCHANGED <<bNext, bLocal>>

\* The command returns after writing `lines`.
BatchReturn(requests, lines) ==
    /\ bPc' = BatchPcAfter
    /\ bNext' = bNext + 1
    /\ bLines' = bLines \o lines
    /\ bLog' = bLog \o requests

\* client.rm(remote_path)
BatchRm ==
    /\ bPc = "running" /\ bCmd.name = "rm"
    /\ LET parsed == remote_path_to_remote_path_components(bTargets[bNext]) IN
       IF ~parsed.ok
       THEN BatchCrash("ValueError", <<>>)
       ELSE \E status \in {StatusNoContent, StatusNotFound} :
               /\ BatchReturn(<<Request("DELETE", parsed.components, status)>>,
                              IF status = StatusNoContent
                              THEN <<Line("stdout", "removed")>>
                              ELSE <<Line("stderr", "cannot remove")>>)
               /\ UNCHANGED bLocal
    /\ UNCHANGED <<bCmd, bTargets, notBatchVars>>

\* client.ls(remote_path)
BatchLs ==
    /\ bPc = "running" /\ bCmd.name = "ls"
    /\ LET parsed == remote_path_to_remote_path_components(bTargets[bNext]) IN
       IF ~parsed.ok
       THEN BatchCrash("ValueError", <<>>)
       ELSE \E response \in BatchListings(parsed.components) :
               LET list_result == list_remote_file_or_directory(parsed.components, response)
                   requests    == <<Request("PROPFIND", parsed.components, response.status)>>
               IN  CASE list_result.tag = "Raised" -> BatchCrash("ValueError", requests)
                     [] list_result.tag = "NotFound" ->
                            /\ BatchReturn(requests, <<Line("stderr", "cannot list")>>)
                            /\ UNCHANGED bLocal
                     [] list_result.tag = "IsFile" ->
                            IF list_result.file_path_components = <<>>
                            THEN BatchCrash("IndexError", requests)
                            ELSE /\ BatchReturn(requests, <<Line("stdout", "name")>>)
                                 /\ UNCHANGED bLocal
                     [] list_result.tag = "IsDirectory" ->
                            /\ BatchReturn(requests, <<>>)
                            /\ UNCHANGED bLocal
    /\ UNCHANGED <<bCmd, bTargets, notBatchVars>>

\* create_directories_from_remote_path_components as a function of the
\* statuses the server gives to its creation requests, in order: its
\* result, the place of the next unused status, and the requests issued.
RECURSIVE create_directories_from_remote_path_components(_, _, _)
create_directories_from_remote_path_components(remote_path_components, statuses, k) ==
    IF remote_path_components = <<>>
    THEN [result |-> TRUE, k |-> k, requests |-> <<>>]
    ELSE LET first == <<Request("MKCOL", remote_path_components, statuses[k])>> IN
         IF create_directory_from_remote_path_components(statuses[k])
         THEN [result |-> TRUE, k |-> k + 1, requests |-> first]
         ELSE LET parent == create_directories_from_remote_path_components(
                                ButLast(remote_path_components), statuses, k + 1)
              IN  IF parent.result
                  THEN [result |-> create_directory_from_remote_path_components(
                                       statuses[parent.k]),
                        k |-> parent.k + 1,
                        requests |-> first \o parent.requests
                            \o <<Request("MKCOL", remote_path_components,
                                         statuses[parent.k])>>]
                  ELSE [result |-> FALSE, k |-> parent.k,
                        requests |-> first \o parent.requests]

\* client.mkdir(remote_directory_path, p)
BatchMkdir ==
    /\ bPc = "running" /\ bCmd.name = "mkdir"
    /\ LET parsed == remote_path_to_remote_path_components(bTargets[bNext]) IN
       IF ~parsed.ok
       THEN BatchCrash("ValueError", <<>>)
       ELSE \E statuses \in SequencesOfLen({StatusCreated, StatusNotAllowed},
                                           2 * Len(parsed.components) + 1) :
               LET made ==
                       IF bCmd.p
                       THEN create_directories_from_remote_path_components(
                                parsed.components, statuses, 1)
                       ELSE [result |-> create_directory_from_remote_path_components(
                                            statuses[1]),
                             k |-> 2,
                             requests |-> <<Request("MKCOL", parsed.components,
                                                    statuses[1])>>]
               IN  \* the statuses that were not used do not distinguish runs
                   /\ \A j \in made.k..Len(statuses) : statuses[j] = StatusCreated
                   /\ BatchReturn(made.requests,
                                  IF made.result THEN <<>>
                                  ELSE <<Line("stderr", "cannot create remote directory")>>)
                   /\ UNCHANGED bLocal
    /\ UNCHANGED <<bCmd, bTargets, notBatchVars>>

\* put_file_to_remote_path_components: the statuses it takes for success
PutSucceeded(status) == status \in {StatusOK, StatusCreated, StatusNoContent}

\* client.put(remote_directory_path, local_path): the remote directory is
\* parsed, then the actions of iterate_put_actions are carried out; the
\* results of the creation and of the upload are not looked at.
BatchPut ==
    /\ bPc = "running" /\ bCmd.name = "put"
    /\ LET parsed   == remote_path_to_remote_path_components(bCmd.remote_directory_path)
           top      == bTargets[bNext]
           basename == Basename(top)
       IN
       IF ~parsed.ok
       THEN BatchCrash("ValueError", <<>>)
       ELSE IF basename # <<>> /\ OsPathIsfile(BatchLocalTree, top)
       THEN \E status \in {StatusCreated, StatusConflict} :
               /\ BatchReturn(
                      <<Request("PUT",
                                parsed.components
                                    \o UploadLocalFile(top, <<basename>>).remote,
                                status)>>,
                      <<Line("stdout", "uploaded")>>)
               /\ UNCHANGED bLocal
       ELSE IF basename # <<>> /\ OsPathIsdir(BatchLocalTree, top)
       THEN \E status \in {StatusCreated, StatusNotAllowed} :
               /\ DirnamesOf(BatchLocalTree, top) = {}
               /\ FilenamesOf(BatchLocalTree, top) = {}
               /\ BatchReturn(
                      <<Request("MKCOL",
                                parsed.components
                                    \o CreateRemoteDirectory(<<basename>>).remote,
                                status)>>,
                      <<>>)
               /\ UNCHANGED bLocal
       ELSE BatchCrash("ValueError", <<>>)
    /\ UNCHANGED <<bCmd, bTargets, notBatchVars>>

\* client.get(local_directory_path, remote_path), for a target that is not
\* found, a file or an empty directory, into a writable destination.
BatchGet ==
    /\ bPc = "running" /\ bCmd.name = "get"
    /\ LET parsed == remote_path_to_remote_path_components(bTargets[bNext]) IN
       IF ~parsed.ok
       THEN BatchCrash("ValueError", <<>>)
       ELSE \E response \in BatchListings(parsed.components) :
               LET list_result == list_remote_file_or_directory(parsed.components, response)
                   listing     == <<Request("PROPFIND", parsed.components, response.status)>>
                   path        == OsPathJoin(<<Last(parsed.components)>>)
               IN  CASE list_result.tag = "Raised" -> BatchCrash("ValueError", listing)
                     [] list_result.tag = "NotFound" ->
                            /\ BatchReturn(listing, <<>>)
                            /\ UNCHANGED bLocal
                     [] list_result.tag = "IsFile" ->
                            IF parsed.components = <<>>
                            THEN BatchCrash("IndexError", listing)
                            ELSE IF ~OpenForWritingSucceeds(bLocal, path)
                            THEN BatchCrash("OSError", listing)
                            ELSE \E status \in {StatusOK, StatusNotFound} :
                                    /\ BatchReturn(
                                           listing \o <<Request("GET",
                                                                list_result.file_path_components,
                                                                status)>>,
                                           <<Line("stdout", "downloaded")>>)
                                    /\ bLocal' = {e \in bLocal : e.path # path}
                                          \cup {[path |-> path, kind |-> "file",
                                                 data |-> IF status = StatusOK
                                                          THEN "bytes" ELSE "empty"]}
                     [] list_result.tag = "IsDirectory" ->
                            IF parsed.components = <<>> \/ LocalIsdir(bLocal, path)
                            THEN /\ BatchReturn(listing, <<>>)
                                 /\ UNCHANGED bLocal
                            ELSE IF OsMkdirSucceeds(bLocal, path)
                            THEN /\ BatchReturn(listing, <<>>)
                                 /\ bLocal' = bLocal \cup {[path |-> path, kind |-> "dir",
                                                            data |-> "none"]}
                            ELSE BatchCrash("OSError", listing)
    /\ UNCHANGED <<bCmd, bTargets, notBatchVars>>

\* main: the dispatch on the command and its loops over the targets
BatchNext ==
    \/ BatchLs
    \/ BatchMkdir
    \/ BatchPut
    \/ BatchGet
    \/ BatchRm

SpecBatch == BatchInit /\ [][BatchNext]_vars

\* ------------------------------------------- listing classifier: claims
Listed == lsResponse.status = StatusMulti
Entries == lsResponse.entries

\* The entries that carry a locator: the entries the listing returns.
ReturnedEntries == {k \in 1..Len(Entries) : Entries[k].hasHref}

ResolvedEntry(k) == href_to_remote_path_components(Host, Port, Entries[k].href)

AllResolve == \A k \in ReturnedEntries : ResolvedEntry(k).ok

\* The entries whose locator resolves to the path.
EntriesFor(path) ==
    {k \in ReturnedEntries : ResolvedEntry(k).ok /\ ResolvedEntry(k).components = path}

ListedPaths ==
    {ResolvedEntry(k).components : k \in {j \in ReturnedEntries : ResolvedEntry(j).ok}}

LastEntryFor(path) ==
    CHOOSE k \in EntriesFor(path) : \A j \in EntriesFor(path) : j <= k

Range(seq) == {seq[k] : k \in 1..Len(seq)}

ChildFiles == Range(lsResult.containing_file_path_components)
ChildDirectories == Range(lsResult.containing_directory_path_components)

\* C6 as stated: when the listing holds an entry for the target with a
\* directory indicator, the result is IsDirectory, its two child sets are
\* disjoint, together they hold exactly the returned entries other than
\* the target's own, and an entry is a child directory exactly when it
\* carries a directory indicator.
C6_PartitionByIndicator ==
    (/\ lsPc = "done" /\ Listed
     /\ \E k \in EntriesFor(lsTarget) : Entries[k].collection) =>
        /\ lsResult.tag = "IsDirectory"
        /\ ChildFiles \cap ChildDirectories = {}
        /\ ChildFiles \cup ChildDirectories = ListedPaths \ {lsTarget}
        /\ \A k \in ReturnedEntries :
              (ResolvedEntry(k).ok /\ ResolvedEntry(k).components # lsTarget) =>
                  (ResolvedEntry(k).components \in ChildDirectories
                      <=> Entries[k].collection)

\* C6, amended: when every locator of the listing resolves and the last
\* entry for the target carries a directory indicator, the result is
\* IsDirectory, its two child sets are disjoint, together they hold
\* exactly the paths of the returned entries other than the target's, and
\* a path is a child directory exactly when the last entry for it carries
\* a directory indicator.
C6_PartitionByLastIndicator ==
    (/\ lsPc = "done" /\ Listed /\ AllResolve
     /\ EntriesFor(lsTarget) # {}
     /\ Entries[LastEntryFor(lsTarget)].collection) =>
        /\ lsResult.tag = "IsDirectory"
        /\ ChildFiles \cap ChildDirectories = {}
        /\ ChildFiles \cup ChildDirectories = ListedPaths \ {lsTarget}
        /\ \A path \in ListedPaths \ {lsTarget} :
              path \in ChildDirectories <=> Entries[LastEntryFor(path)].collection

C6_Witness ==
    /\ lsPc = "done" /\ Listed
    /\ lsTarget = << <<"a">> >>
    /\ lsResult.tag = "IsDirectory"
    /\ lsResult.containing_file_path_components = << << <<"a">>, <<"b">> >> >>
    /\ lsResult.containing_directory_path_components = << << <<"b">> >> >>

\* C7 as stated: NotFound whenever no entry of the response resolves to
\* the target, a response without entries or with another status included.
C7_NotFoundWhenNotListed ==
    (lsPc = "done" /\ (~Listed \/ EntriesFor(lsTarget) = {})) =>
        lsResult.tag = "NotFound"

\* C7, amended: NotFound whenever the response has another status, or
\* every locator of the listing resolves and none resolves to the target.
C7_NotFoundWhenAllResolveElsewhere ==
    (lsPc = "done" /\ (~Listed \/ (AllResolve /\ EntriesFor(lsTarget) = {}))) =>
        lsResult.tag = "NotFound"

C7_Witness ==
    /\ lsPc = "done" /\ Listed /\ AllResolve
    /\ lsTarget = << <<"a">> >>
    /\ Len(Entries) = 2
    /\ ReturnedEntries = {1, 2}
    /\ EntriesFor(lsTarget) = {}
    /\ lsResult.tag = "NotFound"

\* ---------------------------------------- directory creation: claims
MkPath == mkCalls[1].path
MkReturned == mkCalls[1].pc = "returned"
MkResult == mkCalls[1].result

NoFilePrefix == Prefixes(MkPath) \cap FilesOf(remote0) = {}

\* The trailing segments of the path that were missing when the call began.
MissingSegments == Cardinality(Prefixes(MkPath) \ DirectoriesOf(remote0))

\* C3: against the faithful server, for a path none of whose prefixes is a
\* file, the call returns true exactly when the path is a directory at
\* its return, and the path and all its ancestors then exist.
C3_TrueIffDirectoryExists ==
    (srv = "faithful" /\ MkReturned /\ NoFilePrefix) =>
        /\ MkResult <=> MkPath \in DirectoriesOf(remote)
        /\ Prefixes(MkPath) \subseteq DirectoriesOf(remote)

\* What does hold of C3's case: the path and its ancestors exist at the
\* return, and the call returns true exactly when the path was missing
\* before it (or is the root).
C3_TrueIffItWasMissing ==
    (srv = "faithful" /\ MkReturned /\ NoFilePrefix) =>
        /\ Prefixes(MkPath) \subseteq DirectoriesOf(remote)
        /\ MkResult <=> (MkPath = <<>> \/ MkPath \notin DirectoriesOf(remote0))

\* C4 as stated: one more creation request than there are missing
\* segments, so 2 when only the final segment is missing.
C4_OneMoreThanMissing ==
    (srv = "faithful" /\ MkReturned /\ NoFilePrefix /\ MissingSegments >= 1) =>
        Len(mkLog) = MissingSegments + 1

\* C4, amended: 2k - 1 creation requests when the last k >= 1 segments are
\* missing, so 1 when only the final segment is missing.
C4_TwiceMissingLessOne ==
    (srv = "faithful" /\ MkReturned /\ NoFilePrefix /\ MissingSegments >= 1) =>
        /\ Len(mkLog) = 2 * MissingSegments - 1
        /\ MkResult

C4_Witness ==
    /\ srv = "faithful" /\ MkReturned /\ NoFilePrefix
    /\ MissingSegments = 3
    /\ Len(mkLog) = 5

\* The requests invocation i issued itself, in order.
OwnRequests(i) ==
    SelectSeq(SubSeq(mkLog, mkCalls[i].from, mkCalls[i].to),
              LAMBDA r : r.path = mkCalls[i].path)

Created(r) == r.status = StatusCreated

\* C5: whatever the server answers, an invocation on the root returns true
\* without a request; one on another path first requests the full path
\* and returns true if that succeeds; it requests the full path a second
\* time only after the first failed and the invocation on the parent path
\* returned true, and then returns that request's outcome; when the
\* invocation on the parent returned false it returns false with no
\* second request.
C5_OptimisticThenFallback ==
    \A i \in 1..Len(mkCalls) :
        LET c == mkCalls[i] IN
        c.pc = "returned" =>
            IF c.path = <<>>
            THEN c.result /\ c.to = c.from - 1
            ELSE /\ c.to >= c.from
                 /\ mkLog[c.from].path = c.path
                 /\ IF Created(mkLog[c.from])
                    THEN c.result /\ c.to = c.from
                    ELSE /\ i < Len(mkCalls)
                         /\ mkCalls[i + 1].path = ButLast(c.path)
                         /\ mkCalls[i + 1].from = c.from + 1
                         /\ IF mkCalls[i + 1].result
                            THEN /\ c.to = mkCalls[i + 1].to + 1
                                 /\ mkLog[c.to].path = c.path
                                 /\ c.result = Created(mkLog[c.to])
                            ELSE /\ c.to = mkCalls[i + 1].to
                                 /\ ~c.result

C5_Witness ==
    /\ srv = "arbitrary" /\ MkReturned
    /\ Len(MkPath) = 2
    /\ Len(mkLog) = 3
    /\ ~Created(mkLog[1]) /\ Created(mkLog[2]) /\ ~Created(mkLog[3])
    /\ ~MkResult
\* ------------------------------------------------- path algebra: claims
\* The fold the specification describes, read left to right over the
\* separator-delimited segments: nothing for an empty segment or ".",
\* pop-last for "..", push for any other segment.
RECURSIVE SegmentFold(_, _, _)
SegmentFold(segs, i, acc) ==
    IF i > Len(segs) THEN Returned(acc)
    ELSE IF segs[i] = <<>> \/ segs[i] = <<".">> THEN SegmentFold(segs, i + 1, acc)
    ELSE IF segs[i] = <<".", ".">>
         THEN IF acc = <<>> THEN Raised ELSE SegmentFold(segs, i + 1, ButLast(acc))
    ELSE SegmentFold(segs, i + 1, Append(acc, segs[i]))

FoldOf(path) == SegmentFold(StrSplit(path), 1, <<>>)

ParserReturned == pPc = "done" /\ pFn \in {"parseRemote", "parseLocalRelative"}

\* parseLocalRelative takes relative paths: it has no rule for a root marker.
InParserDomain == pFn = "parseLocalRelative" => ~StartsWith(pIn, <<"/">>)

\* C9: for every path string whose parent references never pop past the
\* start, both parsers return the left-to-right fold of its segments, and
\* the returned sequence holds no empty segment, no "." and no "..".
C9_ParsersReturnTheFold ==
    (ParserReturned /\ InParserDomain /\ FoldOf(pIn).ok) =>
        /\ pOut = FoldOf(pIn)
        /\ \A i \in 1..Len(pOut.components) :
              pOut.components[i] \notin {<<>>, <<".">>, <<".", ".">>}

C9_Witness ==
    /\ ParserReturned
    /\ pFn = "parseLocalRelative"
    /\ pIn = <<"x", "/", ".", "/", ".", ".">> \/ pIn = <<"x", "/", ".", ".", "/", "y">>
    /\ pOut.ok
    /\ pOut.components \in {<<>>, << <<"y">> >>}

\* C10: both parsers fail whenever a parent reference is applied to an
\* empty sequence, and a parent reference applied to a non-empty sequence
\* never makes them fail.
C10_PopPastStartFails ==
    ParserReturned =>
        /\ ~FoldOf(pIn).ok => pOut = Raised
        /\ (InParserDomain /\ FoldOf(pIn).ok) => pOut.ok

C10_Witness ==
    /\ ParserReturned
    /\ pFn = "parseRemote"
    /\ pIn = <<"/", ".", ".", "/", "x">>
    /\ pOut = Raised

\* A locator in one of the two forms the claim names: the absolute form
\* under the client's host and port, or the relative form starting with a
\* separator; then canonically coded segments, none empty, "." or "..",
\* with or without a trailing separator.
WellFormedLocator(L) ==
    LET base == BaseHref(Host, Port) \o <<"/">>
        rest == IF StartsWith(L, base) THEN DropFirst(L, Len(base)) ELSE Tail(L)
        segs == StrSplit(rest)
        body == IF Last(segs) = <<>> THEN ButLast(segs) ELSE segs
    IN  /\ StartsWith(L, base) \/ StartsWith(L, <<"/">>)
        /\ \A i \in 1..Len(body) :
              /\ body[i] \notin {<<>>, <<".">>, <<".", ".">>}
              /\ quote(unquote(body[i])) = body[i]

Scheme == <<"h", "t", "t", "p", ":", "/", "/">>

\* The host:port a locator with a scheme names: what lies between the
\* scheme and the next separator.
AuthorityOf(locator) ==
    LET rest == DropFirst(locator, Len(Scheme))
        cut  == {k \in 1..Len(rest) : rest[k] = "/"}
    IN  IF cut = {} THEN rest
        ELSE SubSeq(rest, 1, (CHOOSE k \in cut : \A j \in cut : k <= j) - 1)

NamesAnotherServer(locator) ==
    /\ StartsWith(locator, Scheme)
    /\ AuthorityOf(locator) # Host \o <<":">> \o FormatDecimal(Port)

\* C11: fromResourceLocator fails for every locator that starts neither
\* with the expected http://host:port prefix nor with a separator, and for
\* every locator whose remainder after the stripped leading separator begins
\* with a root marker; it never returns components for a locator of a
\* different host or port.
C11_ForeignLocatorsFail ==
    (pFn = "fromHref" /\ pPc # "ready") =>
        /\ (~StartsWith(pIn, BaseHref(Host, Port)) /\ ~StartsWith(pIn, <<"/">>)) => ~pMid.ok
        /\ StartsWith(pIn, <<"/", "/">>) => ~pMid.ok
        /\ NamesAnotherServer(pIn) => ~pMid.ok

\* What does hold of C11's cases: the first two.
C11_MismatchedPrefixOrRootFails ==
    (pFn = "fromHref" /\ pPc # "ready") =>
        /\ (~StartsWith(pIn, BaseHref(Host, Port)) /\ ~StartsWith(pIn, <<"/">>)) => ~pMid.ok
        /\ StartsWith(pIn, <<"/", "/">>) => ~pMid.ok

\* ------------------------------------------------- get planner: claims
GetClassifiedDirectory(i) == getCalls[i].list_result.tag = "IsDirectory"

GetEnd(i) == IF getCalls[i].pc = "returned" THEN getCalls[i].to ELSE Len(getOut)

\* What invocation i has emitted so far, its callees' actions included.
GetEmitted(i) == SubSeq(getOut, getCalls[i].from, GetEnd(i))

GetCallees(i) == {j \in 1..Len(getCalls) : getCalls[j].parent = i}

GetCalleeRank(i, j) == Cardinality({k \in GetCallees(i) : k <= j})

\* The stream of one invocation classified as a directory, as far as it
\* has got: the creation of prefix + basename first unless the target is
\* the root, then the downloads of the child files in order, then the
\* streams of the invocations on the child directories, in order, one
\* after another, each with the extended prefix (the caller's own for the
\* root); a returned invocation has emitted all of it.
DirectoryStreamInOrder(i) ==
    LET call        == getCalls[i]
        isRoot      == call.remote_path_components = <<>>
        extended    == IF isRoot THEN call.relative_local_path_prefix
                       ELSE Append(call.relative_local_path_prefix,
                                   call.remote_path_components[Len(call.remote_path_components)])
        header      == IF isRoot THEN 0 ELSE 1
        files       == call.list_result.containing_file_path_components
        directories == call.list_result.containing_directory_path_components
        emitted     == GetEmitted(i)
        callees     == GetCallees(i)
        own         == header + Len(files)
    IN
    /\ (header = 1 /\ Len(emitted) >= 1) =>
           emitted[1] = [action |-> "CreateLocalDirectory", remote |-> <<>>, local |-> extended]
    /\ \A k \in 1..Len(files) :
           Len(emitted) >= header + k =>
               emitted[header + k] =
                   [action |-> "DownloadRemoteFile", remote |-> files[k],
                    local |-> Append(extended, files[k][Len(files[k])])]
    /\ Cardinality(callees) <= Len(directories)
    /\ callees = {} /\ call.pc # "returned" => Len(emitted) <= own
    /\ \A j \in callees :
           LET rank == GetCalleeRank(i, j) IN
           /\ getCalls[j].remote_path_components = directories[rank]
           /\ getCalls[j].relative_local_path_prefix = extended
           /\ getCalls[j].from =
                  IF rank = 1 THEN call.from + own
                  ELSE GetEnd(CHOOSE k \in callees : GetCalleeRank(i, k) = rank - 1) + 1
           /\ rank < Cardinality(callees) => getCalls[j].pc = "returned"
           /\ rank = Cardinality(callees) => GetEnd(i) = GetEnd(j)
    /\ call.pc = "returned" =>
           /\ Cardinality(callees) = Len(directories)
           /\ callees = {} => Len(emitted) = own

\* C2: an invocation of the get planner on a target classified as a
\* directory emits, in this order, CreateLocalDirectory for prefix +
\* basename (not for the root), one DownloadRemoteFile per child file, then
\* the complete stream of the recursive plan of each child directory in
\* turn with the extended prefix (the caller's prefix for the root).
C2_DirectoryStreamInOrder ==
    \A i \in 1..Len(getCalls) : GetClassifiedDirectory(i) => DirectoryStreamInOrder(i)

\* A finished plan of a directory other than the root with a child file
\* and a child directory, and one of the root with a child directory.
C2_Witness ==
    /\ getPc = "done"
    /\ GetClassifiedDirectory(1)
    /\ Len(getCalls[1].list_result.containing_file_path_components) >= 1
    /\ Len(getCalls[1].list_result.containing_directory_path_components) >= 1
    /\ getCalls[1].remote_path_components # <<>>
    /\ Len(getOut) >= 3

\* ------------------------------------------------- put planner: claims
PutTopRemote == Append(putPrefix, putTop[Len(putTop)])

\* The action at place n is for an entry inside a directory of the upload:
\* its remote path is longer than that of the top directory.
PutInsideADirectory(n) == Len(putOut[n].remote) > Len(PutTopRemote)

PutCreatedBefore(n, directory) ==
    \E m \in 1..(n - 1) :
        putOut[m] = [action |-> "CreateRemoteDirectory", local |-> <<>>,
                     remote |-> directory]

\* C1: in the stream of the put planner every action for an entry inside
\* a directory D comes strictly after the CreateRemoteDirectory for D, and
\* the first action of the plan of a directory is the CreateRemoteDirectory
\* for prefix + basename of the top directory.
C1_CreateBeforeContents ==
    /\ (putOut # <<>> /\ KindAt(putTree, putTop) \in {"dir", "linkdir"}) =>
           putOut[1] = [action |-> "CreateRemoteDirectory", local |-> <<>>,
                        remote |-> PutTopRemote]
    /\ \A n \in 1..Len(putOut) :
           PutInsideADirectory(n) =>
               PutCreatedBefore(n, SubSeq(putOut[n].remote, 1, Len(putOut[n].remote) - 1))

\* A finished plan of a directory, of three actions or more, one of them
\* the upload of a file inside the directory.
C1_Witness ==
    /\ putPc = "done"
    /\ Len(putOut) >= 3
    /\ \E n \in 1..Len(putOut) :
           /\ Len(putOut[n].remote) >= Len(putPrefix) + 2
           /\ putOut[n].action = "UploadLocalFile"

\* ------------------------------------------------------- get: claims
GetNotFound(i) ==
    getCalls[i].pc = "returned" /\ getCalls[i].list_result.tag = "NotFound"

\* C12: when classify of the target is NotFound the planner's stream is
\* empty and nothing is raised; get then changes nothing locally and issues
\* no further request for that target.
C12_NotFoundPlansNothing ==
    /\ \A i \in 1..Len(getCalls) :
           GetNotFound(i) =>
               /\ getCalls[i].to = getCalls[i].from - 1
               /\ GetCallees(i) = {}
    /\ (getCalls # <<>> /\ GetNotFound(1)) =>
           /\ getPc = "done"
           /\ getOut = <<>>
           /\ getLocal = getLocal0
           /\ getXfer = <<>>
           /\ getLog = <<getCalls[1].remote_path_components>>

\* get of a path that is not on a server that has other entries.
C12_Witness ==
    /\ getCalls # <<>> /\ GetNotFound(1)
    /\ getPc = "done"
    /\ srv = "faithful" /\ remote # {}

\* ------------------------------------------------------ main: claims
BatchEnded == bPc \in {"done", "crashed"}

BatchProcessed(i) == i < bNext

RequestsOf(i) == SelectSeq(bLog, LAMBDA r : r.target = i)

RequestFailed(r) ==
    CASE r.method = "MKCOL" -> r.status # 201
      [] r.method = "PUT" -> r.status \notin {200, 201, 204}
      [] r.method = "GET" -> r.status # StatusOK
      [] r.method = "DELETE" -> r.status # 204
      [] r.method = "PROPFIND" -> r.status # 207

\* The operation on target i failed: its target was not found, or the
\* last of its create, upload, download or delete requests failed.
OperationFailed(i) ==
    /\ RequestsOf(i) # <<>>
    /\ RequestFailed(RequestsOf(i)[Len(RequestsOf(i))])

DiagnosticsOf(i) ==
    Len(SelectSeq(bLines, LAMBDA l : l.target = i /\ l.stream = "stderr"))

\* C13: for each of ls, mkdir, put, get and rm, when the operation on one
\* target fails (a create, upload, download or delete fails, or the target
\* is not found) exactly one diagnostic line is written to the error
\* stream for that target, and the remaining targets are processed.
C13_OneDiagnosticPerFailedTarget ==
    \A i \in 1..Len(bTargets) :
        (BatchProcessed(i) /\ OperationFailed(i)) =>
            /\ DiagnosticsOf(i) = 1
            /\ bPc = "done" => \A j \in i..Len(bTargets) : BatchProcessed(j)

\* What does hold of C13's case: ls, mkdir and rm write the one line.
C13_OneDiagnosticForLsMkdirRm ==
    \A i \in 1..Len(bTargets) :
        (bCmd.name \in {"ls", "mkdir", "rm"} /\ BatchProcessed(i) /\ OperationFailed(i)) =>
            /\ DiagnosticsOf(i) = 1
            /\ bPc = "done" => \A j \in i..Len(bTargets) : BatchProcessed(j)

\* The processing of target bNext raised a path parsing error.
ParsingErrorRaised ==
    /\ bPc = "crashed"
    /\ bLines[Len(bLines)] = [target |-> bNext, stream |-> "stderr", text |-> "ValueError"]

\* C14: a path parsing error raised while one target of a put, get or rm
\* batch is processed aborts only that target: every later target is
\* still processed.
C14_ParsingErrorAbortsOneTarget ==
    (bCmd.name \in {"put", "get", "rm"} /\ ParsingErrorRaised) =>
        \A j \in (bNext + 1)..Len(bTargets) : BatchProcessed(j)

\* ------------------------------------------- put planner: more claims
\* The entries of the tree inside the directory given to the planner.
PutEntriesInside ==
    {e \in putTree : Len(e.path) > Len(putTop)
                        /\ SubSeq(e.path, 1, Len(putTop)) = putTop}

\* C15: the put planner fails, emitting no upload for it, for any local
\* path that is neither a regular file nor a directory (a symbolic link, a
\* device node), when it is the top-level path and when it is an entry
\* met while a directory is walked.
C15_UnsupportedEntriesFail ==
    /\ (putPc # "start" /\ KindAt(putTree, putTop) \in {"special", "linkdir"}) =>
           (putPc = "raised" /\ putOut = <<>>)
    /\ \A n \in 1..Len(putOut) :
           putOut[n].action = "UploadLocalFile" =>
               KindAt(putTree, putOut[n].local) = "file"
    /\ (putPc = "done" /\ KindAt(putTree, putTop) = "dir") =>
           \A e \in PutEntriesInside : e.kind \in {"file", "dir"}

\* What does hold of C15's case: a top-level path that is a special file,
\* or that does not exist, or the root, raises before anything is yielded.
C15_UnsupportedTopLevelFails ==
    (putPc # "start" /\ (putTop = <<>> \/ KindAt(putTree, putTop) \in {"special", "none"})) =>
        (putPc = "raised" /\ putOut = <<>>)

\* -------------------------------------------------- get: more claims
\* The stream was consumed to its end.
GetConsumed == getPc = "done" /\ getDone = Len(getOut)

GetTarget == getCalls[1].remote_path_components

\* The directories of the server's tree below the target.
DirectoriesBelowTarget ==
    {d \in DirectoriesOf(remote0) :
        /\ GetTarget \in DirectoriesOf(remote0)
        /\ Len(d) > Len(GetTarget)
        /\ SubSeq(d, 1, Len(GetTarget)) = GetTarget}

ListedAsChildFile(path) ==
    \E i \in 1..Len(getCalls) :
        \E k \in 1..Len(getCalls[i].list_result.containing_file_path_components) :
            getCalls[i].list_result.containing_file_path_components[k] = path

ListedAsChildDirectory(path) ==
    \E i \in 1..Len(getCalls) :
        \E k \in 1..Len(getCalls[i].list_result.containing_directory_path_components) :
            getCalls[i].list_result.containing_directory_path_components[k] = path

ListingCostsAreExact ==
    /\ \A j, k \in 1..Len(getLog) : j # k => getLog[j] # getLog[k]
    /\ \A k \in 2..Len(getLog) :
           ListedAsChildDirectory(getLog[k]) /\ ~ListedAsChildFile(getLog[k])
    /\ srv = "faithful" =>
           /\ Len(getLog) = 1 + Cardinality(DirectoriesBelowTarget)
           /\ \A k \in 2..Len(getLog) : getLog[k] \in DirectoriesBelowTarget

OneListingPerInvocation ==
    /\ Len(getLog) = Len(getCalls)
    /\ \A k \in 1..Len(getLog) : getLog[k] = getCalls[k].remote_path_components
    /\ \A k \in 2..Len(getLog) :
           \E n \in 1..Len(getCalls[getCalls[k].parent]
                               .list_result.containing_directory_path_components) :
               getCalls[getCalls[k].parent]
                   .list_result.containing_directory_path_components[n] = getLog[k]

ImmediateChildOf(path, parent) ==
    Len(path) = Len(parent) + 1 /\ SubSeq(path, 1, Len(parent)) = parent

\* C17: for every listing response the server may return, every path in
\* childFiles and childDirectories of an IsDirectory result of classify(t)
\* is an immediate child of t, and t itself is in neither.
C17_OnlyImmediateChildren ==
    (lsPc = "done" /\ lsResult.tag = "IsDirectory") =>
        /\ \A path \in ChildFiles \cup ChildDirectories : ImmediateChildOf(path, lsTarget)
        /\ lsTarget \notin ChildFiles \cup ChildDirectories

\* What does hold of C17's case: the target is in neither set.
C17_TargetIsNoChild ==
    (lsPc = "done" /\ lsResult.tag = "IsDirectory") =>
        lsTarget \notin ChildFiles \cup ChildDirectories

\* The entry that decides the variant: the last one resolving to the target.
OwnEntry == Entries[LastEntryFor(lsTarget)]

\* C20 as stated: the variant is decided only by the target's own entry,
\* whatever other entries the response holds: IsFile carrying the target
\* exactly when an entry for the target is present without a directory
\* indicator, IsDirectory exactly when the entry for the target carries one.
C20_VariantByOwnEntry ==
    (lsPc = "done" /\ Listed) =>
        /\ lsResult.tag = "IsFile" <=>
               \E k \in ReturnedEntries :
                   /\ ResolvedEntry(k) = Returned(lsTarget)
                   /\ ~Entries[k].collection
        /\ lsResult.tag = "IsFile" => lsResult.file_path_components = lsTarget
        /\ lsResult.tag = "IsDirectory" <=>
               \E k \in ReturnedEntries :
                   /\ ResolvedEntry(k) = Returned(lsTarget)
                   /\ Entries[k].collection

\* C20, amended: when every locator of the listing resolves, the variant
\* is decided by the last entry that resolves to the target, whatever the
\* other entries are: IsFile carrying the target exactly when that entry
\* has no directory indicator, IsDirectory exactly when it has one,
\* NotFound exactly when there is no such entry; when a locator does not
\* resolve, classify raises.
C20_VariantByLastOwnEntry ==
    (lsPc = "done" /\ Listed) =>
        IF ~AllResolve THEN lsResult.tag = "Raised"
        ELSE IF EntriesFor(lsTarget) = {} THEN lsResult.tag = "NotFound"
        ELSE IF OwnEntry.collection THEN lsResult.tag = "IsDirectory"
        ELSE lsResult = IsFile(lsTarget)

\* A file's listing with other entries beside the file's own.
C20_Witness ==
    /\ lsPc = "done" /\ Listed /\ AllResolve
    /\ lsResult = IsFile(lsTarget)
    /\ lsTarget # <<>>
    /\ \E k \in ReturnedEntries : ResolvedEntry(k).components # lsTarget

\* ------------------------------------------------ get executor: claims
\* The loop of get() carries out the pending action in this step.
GetCarriesOut == getDone' = getDone + 1

GetCreatedEarlier(relative_local_directory_path_components) ==
    \E m \in 1..getDone :
        getOut[m] = [action |-> "CreateLocalDirectory", remote |-> <<>>,
                     local |-> relative_local_directory_path_components]

GetDownloadRefused ==
    /\ Len(getXfer') = Len(getXfer) + 1
    /\ getXfer'[Len(getXfer')].status # StatusOK

\* C19: a download answered with a status other than 200 yields no bytes
\* and raises nothing; get leaves an empty local file at the destination
\* path and goes on with the next action.
C19_RefusedDownloadLeavesEmptyFile ==
    [][GetDownloadRefused =>
          /\ [path |-> OsPathJoin(GetPending.local), kind |-> "file", data |-> "empty"]
                 \in getLocal'
          /\ getPc' = getPc
          /\ getDone' = getDone + 1]_vars

\* A refused download followed by another download, the stream consumed
\* to its end.
C19_Witness ==
    /\ GetConsumed
    /\ Len(getXfer) >= 2
    /\ getXfer[1].status # StatusOK
    /\ \E e \in getLocal : e.kind = "file" /\ e.data = "empty"

\* ------------------------------------------- put planner: a regular file
\* The planner was given a regular file and has started.
PutOfRegularFile ==
    /\ putPc # "start"
    /\ putTop # <<>>
    /\ \E e \in putTree : e.path = putTop /\ e.kind = "file"

\* C21: when the local path is a regular file, the stream of the put
\* planner is exactly one action, the upload of that file to the remote
\* prefix with the file's basename appended, and holds no
\* CreateRemoteDirectory; the planner ends without an error.
C21_RegularFileIsOneUpload ==
    PutOfRegularFile =>
        /\ putPc = "done"
        /\ Len(putOut) = 1
        /\ putOut[1].action = "UploadLocalFile"
        /\ putOut[1].local = putTop
        /\ putOut[1].remote = putPrefix \o <<putTop[Len(putTop)]>>
        /\ \A n \in 1..Len(putOut) : putOut[n].action # "CreateRemoteDirectory"

\* A regular file below the top of the local tree, put under a remote
\* prefix.
C21_Witness ==
    /\ PutOfRegularFile
    /\ Len(putTop) > 1
    /\ putPrefix # <<>>
    /\ putPc = "done"

\* ------------------------------------------- get planner: a remote file
\* The target of get was classified IsFile and the planner has taken the
\* step that follows the classification.
GetOfRemoteFile ==
    /\ getCalls[1].list_result.tag = "IsFile"
    /\ ~(getCalls[1].pc = "file" /\ getPc = "running")

GetStreamIsOneDownload ==
    /\ GetTarget # <<>>
    /\ getOut = <<[action |-> "DownloadRemoteFile",
                   remote |-> GetTarget,
                   local |-> getCalls[1].relative_local_path_prefix
                                 \o <<GetTarget[Len(GetTarget)]>>]>>
    /\ getLog = <<GetTarget>>
    /\ getCalls[1].pc = "returned"

\* C22: when the target of get is classified IsFile, the stream of the get
\* planner is exactly one action, the download of the target to the local
\* prefix with the target's last segment appended; one listing request is
\* issued and no CreateLocalDirectory is emitted.
C22_FileIsOneDownload == GetOfRemoteFile => GetStreamIsOneDownload

\* The same for every target but the root.
C22_NonRootFileIsOneDownload ==
    (GetOfRemoteFile /\ GetTarget # <<>>) => GetStreamIsOneDownload

\* ------------------------------------------------ get: one step at a time
\* A listing request is sent in this step.
GetListingSent == Len(getLog') = Len(getLog) + 1

\* Every action yielded so far has been carried out to its end.
GetAllCarriedOut == getDone = Len(getOut) /\ getWire = <<>>

\* C23: the planner of get yields one action at a time to the loop that
\* carries it out, and requests are strictly sequential: a listing request
\* is sent only when every action yielded earlier has been carried out,
\* and at no time is more than one request in flight.
C23_OneActionAndOneRequestAtATime ==
    /\ [](Len(getOut) <= getDone + 1)
    /\ [](Len(getWire) <= 1)
    /\ [][GetListingSent => GetAllCarriedOut]_vars

\* The listing request for a directory inside the target is in flight,
\* after a download and a directory creation yielded before it were
\* carried out.
C23_Witness ==
    /\ Len(getCalls) >= 2
    /\ getWire = <<[method |-> "PROPFIND",
                    path |-> getCalls[Len(getCalls)].remote_path_components]>>
    /\ getXfer # <<>>
    /\ getDone = Len(getOut)
    /\ \E n \in 1..Len(getOut) : getOut[n].action = "CreateLocalDirectory"

\* ------------------------------------- directory creation: its requests
\* On the faithful server, the parent of the path is a directory and
\* nothing is at the path when the operation begins.
OnlyTheLastSegmentIsMissing ==
    /\ srv = "faithful"
    /\ MkPath # <<>>
    /\ SubSeq(MkPath, 1, Len(MkPath) - 1) \in DirectoriesOf(remote0) \cup {<<>>}
    /\ MkPath \notin PathsOf(remote0)

\* C24: create_directories_from_remote_path_components returns for every
\* path and every sequence of answers of the server; on a path of n
\* segments it issues at most 2n creation requests, and exactly one, for
\* the path itself, when the parent exists and the path does not.
C24_ReturnsWithinTwiceTheDepth ==
    /\ [](MkCanStep \/ MkReturned)
    /\ <>MkReturned
    /\ [](Len(mkLog) <= 2 * Len(MkPath))
    /\ []((MkReturned /\ OnlyTheLastSegmentIsMissing) =>
             mkLog = <<[path |-> MkPath, status |-> StatusCreated]>>)

\* The whole chain of a path of the greatest depth was missing: the
\* operation has returned after twice as many requests as segments.
C24_Witness ==
    /\ MkReturned
    /\ Len(MkPath) = MaxDepth
    /\ Len(mkLog) = 2 * Len(MkPath)

\* One request sufficed for a path below an existing directory.
C24_WitnessOneRequest ==
    /\ MkReturned
    /\ OnlyTheLastSegmentIsMissing
    /\ Len(MkPath) > 1
    /\ Len(mkLog) = 1

\* ----------------------------------------------- get: the whole subtree
\* get of a directory other than the root, with an empty local prefix,
\* from the server that lists its tree.
GetOfDirectoryOfATree ==
    /\ srv = "faithful"
    /\ GetTarget # <<>>
    /\ GetTarget \in DirectoriesOf(remote0)
    /\ getCalls[1].relative_local_path_prefix = <<>>

\* The entries of the server's tree at and below the target.
GetSubtree ==
    {e \in remote0 : /\ Len(e.path) >= Len(GetTarget)
                     /\ SubSeq(e.path, 1, Len(GetTarget)) = GetTarget}

\* The action for an entry: its local path is its remote path without
\* the components of the target's parent.
GetActionFor(e) ==
    LET local == SubSeq(e.path, Len(GetTarget), Len(e.path)) IN
    IF e.kind = "dir"
    THEN [action |-> "CreateLocalDirectory", remote |-> <<>>, local |-> local]
    ELSE [action |-> "DownloadRemoteFile", remote |-> e.path, local |-> local]

GetEnded == getPc = "raised" \/ GetConsumed

\* C25: for a server whose listings are those of a finite tree, get of a
\* directory t other than the root with an empty prefix comes to an end,
\* and when its stream was consumed to the end it holds exactly one action
\* for each file and each directory at and below t, none missing and none
\* twice, the local path of each being the entry's remote path without
\* the components of t's parent.
C25_OneActionPerEntryOfTheSubtree ==
    /\ GetOfDirectoryOfATree ~> GetEnded
    /\ []((GetOfDirectoryOfATree /\ GetConsumed) =>
             /\ Len(getOut) = Cardinality(GetSubtree)
             /\ \A e \in GetSubtree :
                    Cardinality({n \in 1..Len(getOut) : getOut[n] = GetActionFor(e)}) = 1)

\* get, to its end, of a directory one level down that holds a file.
C25_Witness ==
    /\ GetOfDirectoryOfATree
    /\ GetConsumed
    /\ Len(GetTarget) > 1
    /\ \E e \in GetSubtree : e.kind = "file"

====
